---- MODULE Spec2Model ----
(***************************************************************************)
(* A model of the wx gateway (package wx): the OAuth2 session handlers of  *)
(* authServer, the header modifier used by the proxy, the cache layer in   *)
(* front of a handler, and the event-stream relay of proxyServer.          *)
(*                                                                         *)
(* Strings that the code parses (redirect targets) are sequences of        *)
(* one-character strings over the alphabet Chars.  Values that the code    *)
(* only compares or carries (tokens, bodies) are drawn from small sets.    *)
(***************************************************************************)
EXTENDS Integers, Sequences, FiniteSets, TLC

(***************************************************************************)
(* Bounds of the model.                                                    *)
(***************************************************************************)
MaxUriLen == 2
MaxTime == 1

(***************************************************************************)
(* State.                                                                  *)
(***************************************************************************)
VARIABLES
  \* the session handlers and the browser
  jar,     \* the browser's cookies: [state, auth], each None or Some(value)
  origin,  \* who wrote the state cookie last: "none", "login" or "client"
  resp,    \* the response to the last request
  last,    \* the last request: handler, parameters, exchange outcome, cookies sent
  now,     \* the clock, in the unit of State.Timestamp
  \* ModifyHeader
  mtrace,  \* the request's headers: as received, then after each ModifyHeader
  flow,    \* what has happened to the browser: a logout and whether a login
           \* followed it, the state value of the last successful callback
  pheader, \* the outbound headers of the proxied request just made, if any
  \* the cache layer
  ttl,     \* proxyCache.Duration
  ctime,   \* the wall clock read by proxyCache.ServeHTTP
  creq,    \* the requests through the cache layer, by request
  cache,   \* the group's main cache: a set of [key, data]
  flights, \* the keys with a load in flight (the group's singleflight map)
  cgone,   \* the inbound requests whose client has gone (r.Context() is done)
  \* the proxy: one inbound request through proxyServer.Serve
  upstream,   \* the upstream body: chunks sent so far, and whether it has ended
  nread,      \* the chunks read from resp.Body so far
  ctxDone,    \* r.Context() is cancelled: the client has disconnected
  bodyClosed, \* resp.Body.Close() has run
  flusherOk,  \* the response writer implements http.Flusher
  serve,      \* where Serve is
  fwd,        \* the forwarding goroutine of Stream: where it is, the chunk it holds
  loop,       \* the flush loop of Stream
  swritten,   \* what has been written to the client's response writer
  sflushed,   \* how much of it had been written at the last Flush
  flushesAfterCancel, \* the Flush calls made after the cancellation
  bw,         \* the response writer's bufio.Writer: its buffer, its count n, its sticky error
  wire,       \* what has been sent to the client
  held,       \* the count n as read by a Write and by a Flush that are under way
  nmods,      \* len(p.Modifiers)
  ran,        \* the modifiers NewRequest has run and their errors, in the order it ran them
  outbound,   \* the calls of Client.Do
  perr,       \* the error Serve handed to handleError: its cause, and as handed
  uresp,      \* the upstream response: its status and headers
  sheader,    \* w.Header(): the headers added to the client's response
  sstatus     \* the status written to the client with the headers it went with

authVars == <<jar, origin, resp, last, now, flow, pheader>>
modVars == <<mtrace>>
cacheVars == <<ttl, ctime, creq, cache, flights, cgone>>
streamVars == <<upstream, nread, ctxDone, bodyClosed, flusherOk, serve, fwd, loop,
                swritten, sflushed, flushesAfterCancel, bw, wire, held>>
wireVars == <<bw, wire, held>>
proxyVars == <<nmods, ran, outbound, perr, uresp, sheader, sstatus>>
vars == <<authVars, modVars, cacheVars, streamVars, proxyVars>>

(***************************************************************************)
(* Optional values: <<>> is "absent", <<v>> is "present with value v".     *)
(***************************************************************************)
None == <<>>
Some(v) == <<v>>
IsSome(o) == Len(o) = 1
Val(o) == o[1]

(***************************************************************************)
(* Redirect targets: every string over Chars of length at most MaxUriLen.  *)
(* "h" stands for any letter, ":" and "/" are themselves.                  *)
(***************************************************************************)
Chars == {"h", ":", "/"}
Letters == {"h"}
SchemeOther == {}
Digits == {}
\* Targets with an authority ("//host"), which need more than MaxUriLen characters.
AuthorityUris ==
  {<<"/", "/", "h">>, <<"/", "/", "h", "/">>,
   <<"h", ":", "/", "/", "h">>, <<"h", ":", "/", "/", "h", "/">>,
   <<"h", ":", "/", "/", "/", "h">>, <<"h", ":", "/", "/", "h", ":", "h">>}
AllUris == (UNION {[1..n -> Chars] : n \in 0..MaxUriLen}) \cup AuthorityUris

HasPrefix(s, p) == Len(s) >= Len(p) /\ SubSeq(s, 1, Len(p)) = p
Drop(s, n) == SubSeq(s, n + 1, Len(s))
\* strings.Index(s, c): the first position of character c in s, 0 when absent.
IndexOf(s, c) ==
  IF \E i \in 1..Len(s) : s[i] = c
  THEN CHOOSE i \in 1..Len(s) : s[i] = c /\ \A j \in 1..(i - 1) : s[j] # c
  ELSE 0
\* strings.LastIndex(s, c): the last position of character c in s, 0 when absent.
LastIndexOf(s, c) ==
  IF \E i \in 1..Len(s) : s[i] = c
  THEN CHOOSE i \in 1..Len(s) : s[i] = c /\ \A j \in (i + 1)..Len(s) : s[j] # c
  ELSE 0

(***************************************************************************)
(* net/url getScheme: the scheme is the longest prefix of letters (digits, *)
(* "+", "-", "." after the first) that is followed by ":"; a ":" at the    *)
(* start is an error, any other character ends the search with no scheme.  *)
(***************************************************************************)
RECURSIVE GetSchemeAt(_, _)
GetSchemeAt(raw, i) ==
  IF i > Len(raw) THEN [err |-> FALSE, scheme |-> <<>>, rest |-> raw]
  ELSE IF raw[i] \in Letters THEN GetSchemeAt(raw, i + 1)
  ELSE IF raw[i] \in (Digits \cup SchemeOther)
       THEN IF i = 1 THEN [err |-> FALSE, scheme |-> <<>>, rest |-> raw]
            ELSE GetSchemeAt(raw, i + 1)
  ELSE IF raw[i] = ":"
       THEN IF i = 1 THEN [err |-> TRUE, scheme |-> <<>>, rest |-> <<>>]
            ELSE [err |-> FALSE, scheme |-> SubSeq(raw, 1, i - 1), rest |-> Drop(raw, i)]
  ELSE [err |-> FALSE, scheme |-> <<>>, rest |-> raw]

getScheme(raw) == GetSchemeAt(raw, 1)

\* net/url validOptionalPort: empty, or ":" followed by digits only.
validOptionalPort(port) ==
  \/ port = <<>>
  \/ port[1] = ":" /\ \A i \in 2..Len(port) : port[i] \in Digits

\* net/url parseAuthority/parseHost (no userinfo, no IPv6 literal in Chars):
\* what follows the last ":" must be a valid port.
parseAuthority(authority) ==
  LET i == LastIndexOf(authority, ":")
  IN IF i # 0 /\ ~validOptionalPort(SubSeq(authority, i, Len(authority)))
     THEN [err |-> TRUE, Host |-> <<>>]
     ELSE [err |-> FALSE, Host |-> authority]

UrlError ==
  [err |-> TRUE, Scheme |-> <<>>, Opaque |-> <<>>, Host |-> <<>>, Path |-> <<>>,
   OmitHost |-> FALSE]

(***************************************************************************)
(* net/url parse(rawURL, viaRequest), as called by url.ParseRequestURI     *)
(* (viaRequest = TRUE) and by url.Parse (viaRequest = FALSE).              *)
(***************************************************************************)
parse(rawURL, viaRequest) ==
  IF rawURL = <<>> /\ viaRequest THEN UrlError
  ELSE
  LET gs == getScheme(rawURL)
      rest == gs.rest
  IN IF gs.err THEN UrlError
     ELSE IF ~HasPrefix(rest, <<"/">>) /\ gs.scheme # <<>>
       THEN \* a rootless path after a scheme is opaque
            [err |-> FALSE, Scheme |-> gs.scheme, Opaque |-> rest, Host |-> <<>>, Path |-> <<>>,
             OmitHost |-> FALSE]
     ELSE IF ~HasPrefix(rest, <<"/">>) /\ viaRequest
       THEN UrlError  \* "invalid URI for request"
     ELSE IF ~HasPrefix(rest, <<"/">>)
             /\ LET cut == IndexOf(rest, "/")
                    segment == IF cut = 0 THEN rest ELSE SubSeq(rest, 1, cut - 1)
                IN IndexOf(segment, ":") # 0
       THEN UrlError  \* "first path segment in URL cannot contain colon"
     ELSE IF (gs.scheme # <<>> \/ (~viaRequest /\ ~HasPrefix(rest, <<"/", "/", "/">>)))
             /\ HasPrefix(rest, <<"/", "/">>)
       THEN LET after == Drop(rest, 2)
                cut == IndexOf(after, "/")
                authority == IF cut = 0 THEN after ELSE SubSeq(after, 1, cut - 1)
                path == IF cut = 0 THEN <<>> ELSE Drop(after, cut - 1)
                pa == parseAuthority(authority)
            IN IF pa.err THEN UrlError
               ELSE [err |-> FALSE, Scheme |-> gs.scheme, Opaque |-> <<>>,
                     Host |-> pa.Host, Path |-> path, OmitHost |-> FALSE]
     ELSE [err |-> FALSE, Scheme |-> gs.scheme, Opaque |-> <<>>, Host |-> <<>>, Path |-> rest,
           OmitHost |-> gs.scheme # <<>> /\ HasPrefix(rest, <<"/">>)]

ParseRequestURI(rawURL) == parse(rawURL, TRUE)
Parse(rawURL) == parse(rawURL, FALSE)

(***************************************************************************)
(* URL.String() of a parsed target, the value Callback and Logout hand to  *)
(* http.Redirect.                                                          *)
(***************************************************************************)
urlString(u) ==
  (IF u.Scheme # <<>> THEN u.Scheme \o <<":">> ELSE <<>>)
  \o (IF u.Opaque # <<>> THEN u.Opaque
      ELSE (IF (u.Scheme # <<>> \/ u.Host # <<>>)
               /\ ~(u.OmitHost /\ u.Host = <<>>)
               /\ (u.Host # <<>> \/ u.Path # <<>>)
            THEN <<"/", "/">> \o u.Host ELSE <<>>)
           \o (IF u.Path # <<>> /\ u.Path[1] # "/" /\ u.Host # <<>> THEN <<"/">> ELSE <<>>)
           \o u.Path)

(***************************************************************************)
(* Cookie and parameter texts.  A text is what encode produced from a      *)
(* State ("enc"), the empty string ("empty"), a string that is not base64  *)
(* ("badb64"), or base64 of something that is not JSON ("badjson").        *)
(***************************************************************************)
EncText(uri, ts) == [kind |-> "enc", RedirectUri |-> uri, Timestamp |-> ts]
RawText(k) == [kind |-> k, RedirectUri |-> <<>>, Timestamp |-> 0]
EmptyText == RawText("empty")
RawTexts == {RawText(k) : k \in {"empty", "badb64", "badjson"}}
Times == 0..MaxTime
\* An access token is its dot-separated segments, as a JSON web token's
\* are written: base64 text with the padding left off.  "%" is not base64,
\* and "eyJhIjoifn5-In0" is in the URL-safe alphabet.
Segments ==
  {"e30", "eyJiIjoxLCJhIjoyfQ", "bnVsbA", "WzFd", "", "%", "eyJhIjoifn5-In0"}
Tokens == {<<"e30", "eyJiIjoxLCJhIjoyfQ", "%">>}

\* authServer.encode: json.Marshal, then base64; a State always marshals.
encode(state) ==
  [err |-> FALSE, value |-> EncText(state.RedirectUri, state.Timestamp)]

\* authServer.decode: pad, base64-decode, json.Unmarshal.
decode(encoded) ==
  IF encoded.kind = "enc"
  THEN [err |-> FALSE,
        state |-> [RedirectUri |-> encoded.RedirectUri, Timestamp |-> encoded.Timestamp]]
  ELSE [err |-> TRUE, state |-> [RedirectUri |-> <<>>, Timestamp |-> 0]]

\* authServer.encodeState: redirect_uri defaults to "/", stamped with the time.
encodeState(redirect_uri, time) ==
  LET redirectUri == IF redirect_uri = <<>> THEN <<"/">> ELSE redirect_uri
  IN encode([RedirectUri |-> redirectUri, Timestamp |-> time])

\* authServer.decodeState: the state cookie must exist and equal the state
\* parameter; then it is decoded.
decodeStateNoCompare(cookie, formState) ==
  IF ~IsSome(cookie) THEN decode(RawText("badb64"))
  ELSE decode(Val(cookie))

decodeState(cookie, formState) ==
  IF ~IsSome(cookie) THEN [err |-> TRUE, state |-> [RedirectUri |-> <<>>, Timestamp |-> 0]]
  ELSE IF Val(cookie) # formState
    THEN [err |-> TRUE, state |-> [RedirectUri |-> <<>>, Timestamp |-> 0]]
  ELSE decode(Val(cookie))

\* authServer.checkError: an error parameter fails the callback.
checkError(errType) == errType # ""

(***************************************************************************)
(* Responses: the status, what the response does to each of the two        *)
(* cookies (http.SetCookie), and the url handed to http.Redirect.          *)
(***************************************************************************)
Keep == <<"keep">>
Clear == <<"clear">>
Set(v) == <<"set", v>>
NoRedirect == [to |-> "none", url |-> <<>>, state |-> EmptyText]
Response(status, stateCookie, authCookie, redirect) ==
  [status |-> status, state |-> stateCookie, auth |-> authCookie, redirect |-> redirect,
   body |-> ""]
BadRequest == Response(400, Keep, Keep, NoRedirect)

(***************************************************************************)
(* The two ways the state text travels: as the state parameter of the      *)
(* authorization URL (oauth2.Config.AuthCodeURL escapes it with            *)
(* url.Values.Encode, the provider echoes it, r.FormValue unescapes it)    *)
(* and as the state cookie (http.SetCookie sanitizes the value, r.Cookie   *)
(* parses it).  The text is base64: letters, digits, "+", "/" and "=".     *)
(***************************************************************************)
MaxTextLen == 2
Base64Alphabet == {"A", "9", "+", "/", "="}
Base64Texts == UNION {[1..n -> Base64Alphabet] : n \in 0..MaxTextLen}

\* url.QueryEscape: letters, digits and "-", "_", ".", "~" stay, a space
\* becomes "+", any other byte becomes "%" and its two hex digits.
RECURSIVE QueryEscape(_)
QueryEscape(text) ==
  IF text = <<>> THEN <<>>
  ELSE (CASE text[1] = "+" -> <<"%", "2", "B">>
          [] text[1] = "/" -> <<"%", "2", "F">>
          [] text[1] = "=" -> <<"%", "3", "D">>
          [] text[1] = " " -> <<"+">>
          [] OTHER -> <<text[1]>>) \o QueryEscape(Tail(text))

\* url.QueryUnescape
RECURSIVE QueryUnescape(_)
QueryUnescape(text) ==
  IF text = <<>> THEN <<>>
  ELSE IF text[1] = "%" /\ Len(text) >= 3
  THEN (CASE <<text[2], text[3]>> = <<"2", "B">> -> <<"+">>
          [] <<text[2], text[3]>> = <<"2", "F">> -> <<"/">>
          [] <<text[2], text[3]>> = <<"3", "D">> -> <<"=">>
          [] OTHER -> <<"?">>) \o QueryUnescape(SubSeq(text, 4, Len(text)))
  ELSE (IF text[1] = "+" THEN <<" ">> ELSE <<text[1]>>) \o QueryUnescape(Tail(text))

\* net/http validCookieValueByte
validCookieValueByte(b) == b \notin {"\"", ";", "\\"}
\* net/http sanitizeCookieValue: invalid bytes are dropped, and a value with
\* a space or a comma is put in double quotes.
sanitizeCookieValue(v) ==
  LET kept == SelectSeq(v, validCookieValueByte)
  IN IF \E i \in DOMAIN kept : kept[i] \in {" ", ","}
     THEN <<"\"">> \o kept \o <<"\"">> ELSE kept
\* net/http parseCookieValue, as readCookies calls it: surrounding double
\* quotes are stripped.
parseCookieValue(raw) ==
  IF Len(raw) > 1 /\ raw[1] = "\"" /\ raw[Len(raw)] = "\""
  THEN SubSeq(raw, 2, Len(raw) - 1) ELSE raw

\* The state parameter as the callback reads it, the provider echoing it.
EchoedState(text) == QueryUnescape(QueryEscape(text))
\* The state cookie as the callback reads it.
StoredState(text) == parseCookieValue(sanitizeCookieValue(text))

\* authServer.Login
LoginEncodesTwice(redirect_uri, time) ==
  LET st == encodeState(redirect_uri, time)
      again == encodeState(redirect_uri, time + 1)
  IN IF st.err THEN BadRequest
     ELSE Response(307, Set(st.value), Keep,
                   [to |-> "idp", url |-> <<>>, state |-> again.value])

LoginResponse(redirect_uri, time) ==
  LET st == encodeState(redirect_uri, time)
  IN IF st.err THEN BadRequest
     ELSE Response(307, Set(st.value), Keep,
                   [to |-> "idp", url |-> <<>>, state |-> st.value])

\* authServer.Callback
CallbackConsumesStateFirst(errType, formState, cookie, exchangeOk, token) ==
  IF checkError(errType) THEN BadRequest
  ELSE LET ds == decodeState(cookie, formState)
       IN IF ds.err THEN BadRequest
          ELSE LET redirectUrl == ParseRequestURI(ds.state.RedirectUri)
               IN IF redirectUrl.err THEN BadRequest
                  ELSE IF redirectUrl.Host # <<>> THEN BadRequest
                  ELSE IF ~exchangeOk THEN Response(400, Clear, Keep, NoRedirect)
                  ELSE Response(307, Clear, Set(<<"Bearer", token>>),
                                [to |-> "local", url |-> urlString(redirectUrl),
                                 state |-> EmptyText])

CallbackKeepsState(errType, formState, cookie, exchangeOk, token) ==
  IF checkError(errType) THEN BadRequest
  ELSE LET ds == decodeState(cookie, formState)
       IN IF ds.err THEN BadRequest
          ELSE LET redirectUrl == ParseRequestURI(ds.state.RedirectUri)
               IN IF redirectUrl.err THEN BadRequest
                  ELSE IF redirectUrl.Host # <<>> THEN BadRequest
                  ELSE IF ~exchangeOk THEN BadRequest
                  ELSE Response(307, Keep, Set(<<"Bearer", token>>),
                                [to |-> "local", url |-> urlString(redirectUrl),
                                 state |-> EmptyText])

CallbackFailureEndsSession(errType, formState, cookie, exchangeOk, token) ==
  LET Failed == Response(400, Keep, Clear, NoRedirect)
  IN IF checkError(errType) THEN Failed
     ELSE LET ds == decodeState(cookie, formState)
          IN IF ds.err THEN Failed
             ELSE LET redirectUrl == ParseRequestURI(ds.state.RedirectUri)
                  IN IF redirectUrl.err THEN Failed
                     ELSE IF redirectUrl.Host # <<>> THEN Failed
                     ELSE IF ~exchangeOk THEN Failed
                     ELSE Response(307, Clear, Set(<<"Bearer", token>>),
                                   [to |-> "local", url |-> urlString(redirectUrl),
                                    state |-> EmptyText])

CallbackResponse(errType, formState, cookie, exchangeOk, token) ==
  IF checkError(errType) THEN BadRequest
  ELSE LET ds == decodeState(cookie, formState)
       IN IF ds.err THEN BadRequest
          ELSE LET redirectUrl == ParseRequestURI(ds.state.RedirectUri)
               IN IF redirectUrl.err THEN BadRequest
                  ELSE IF redirectUrl.Host # <<>> THEN BadRequest
                  ELSE IF ~exchangeOk THEN BadRequest
                  ELSE Response(307, Clear, Set(<<"Bearer", token>>),
                                [to |-> "local", url |-> urlString(redirectUrl),
                                 state |-> EmptyText])

\* authServer.Logout
LogoutKeepsSession(redirect_uri) ==
  LET redirectUri == IF redirect_uri = <<>> THEN <<"/">> ELSE redirect_uri
      redirectUrl == ParseRequestURI(redirectUri)
  IN IF redirectUrl.err THEN BadRequest
     ELSE IF redirectUrl.Host # <<>> THEN BadRequest
     ELSE Response(307, Keep, Keep,
                   [to |-> "local", url |-> urlString(redirectUrl), state |-> EmptyText])

LogoutResponse(redirect_uri) ==
  LET redirectUri == IF redirect_uri = <<>> THEN <<"/">> ELSE redirect_uri
      redirectUrl == ParseRequestURI(redirectUri)
  IN IF redirectUrl.err THEN BadRequest
     ELSE IF redirectUrl.Host # <<>> THEN BadRequest
     ELSE Response(307, Keep, Clear,
                   [to |-> "local", url |-> urlString(redirectUrl), state |-> EmptyText])

\* authServer.decode begins by padding the text with "=" to a multiple of four.
Pad(encoded) ==
  LET l == Len(encoded) % 4
  IN IF l = 0 THEN encoded
     ELSE IF l = 3 THEN encoded \o "="
     ELSE IF l = 2 THEN encoded \o "=="
     ELSE encoded \o "==="

\* base64.StdEncoding.DecodeString: the standard alphabet, padding required.
StdDecodeString(padded) ==
  CASE padded = "" -> [err |-> FALSE, text |-> ""]
    [] padded = "e30=" -> [err |-> FALSE, text |-> "{}"]
    [] padded = "eyJiIjoxLCJhIjoyfQ==" -> [err |-> FALSE, text |-> "{\"b\":1,\"a\":2}"]
    [] padded = "bnVsbA==" -> [err |-> FALSE, text |-> "null"]
    [] padded = "WzFd" -> [err |-> FALSE, text |-> "[1]"]
    [] OTHER -> [err |-> TRUE, text |-> ""]

\* The claims map: nil, or its entries.
NilClaims == [nil |-> TRUE, entries |-> {}]
Claims(entries) == [nil |-> FALSE, entries |-> entries]

\* json.Unmarshal into a map[string]interface{}: an object fills the map,
\* null leaves it nil, any other JSON value and any other text is an error.
Unmarshal(text) ==
  CASE text = "{}" -> [err |-> FALSE, claims |-> Claims({})]
    [] text = "{\"b\":1,\"a\":2}" -> [err |-> FALSE, claims |-> Claims({<<"a", 2>>, <<"b", 1>>})]
    [] text = "{\"a\":2,\"b\":1}" -> [err |-> FALSE, claims |-> Claims({<<"a", 2>>, <<"b", 1>>})]
    [] text = "null" -> [err |-> FALSE, claims |-> NilClaims]
    [] OTHER -> [err |-> TRUE, claims |-> NilClaims]

\* authServer.decode into the claims map.
decodeClaims(segment) ==
  LET decoded == StdDecodeString(Pad(segment))
  IN IF decoded.err THEN [err |-> TRUE, claims |-> NilClaims]
     ELSE Unmarshal(decoded.text)

\* json.NewEncoder(w).Encode(claims): a nil map is null, the keys of a map
\* come out sorted, and a newline ends the text.
jsonEncode(claims) ==
  IF claims.nil THEN "null\n"
  ELSE IF claims.entries = {} THEN "{}\n"
  ELSE "{\"a\":2,\"b\":1}\n"

\* strings.Split(cookie.Value, "."): the cookie's value is the token type, a
\* space and the access token, so the first part starts with the token type.
Split(value) == [i \in 1..Len(value[2]) |-> IF i = 1 THEN value[1] \o " " \o value[2][1]
                                                    ELSE value[2][i]]

\* authServer.UserInfo: the status, the body and what it does to the cookies.
Unauthorized == [status |-> 401, body |-> "", state |-> Keep, auth |-> Keep]
UserInfoDecodesLast(cookie) ==
  IF ~IsSome(cookie) THEN Unauthorized
  ELSE LET parts == Split(Val(cookie))
       IN IF Len(parts) < 2 THEN Unauthorized
          ELSE LET d == decodeClaims(parts[Len(parts)])
               IN IF d.err THEN Unauthorized
                  ELSE [status |-> 200, body |-> jsonEncode(d.claims),
                        state |-> Keep, auth |-> Keep]

UserInfo(cookie) ==
  IF ~IsSome(cookie) THEN Unauthorized
  ELSE LET parts == Split(Val(cookie))
       IN IF Len(parts) < 2 THEN Unauthorized
          ELSE LET d == decodeClaims(parts[2])
               IN IF d.err THEN Unauthorized
                  ELSE [status |-> 200, body |-> jsonEncode(d.claims),
                        state |-> Keep, auth |-> Keep]

\* The Cookie header a browser sends for its cookies.
RECURSIVE JoinDots(_)
JoinDots(segments) ==
  IF Len(segments) = 1 THEN segments[1]
  ELSE segments[1] \o "." \o JoinDots(Tail(segments))
CookieString(value) == value[1] \o " " \o JoinDots(value[2])

\* The browser's cookie after a response: set, cleared (MaxAge -1) or kept.
AfterCookie(cookie, effect) ==
  IF effect = Keep THEN cookie
  ELSE IF effect = Clear THEN None
  ELSE Some(effect[2])


NoRequest ==
  [op |-> "none", redirect_uri |-> <<>>, error |-> "", state |-> EmptyText,
   exchangeOk |-> FALSE, jar |-> [state |-> None, auth |-> None]]

NoResponse == Response(0, Keep, Keep, NoRedirect)

NoFlow == [logout |-> "none", consumed |-> None]

InitAuth ==
  /\ jar = [state |-> None, auth |-> None]
  /\ origin = "none"
  /\ resp = NoResponse
  /\ last = NoRequest
  /\ now = 0
  /\ flow = NoFlow
  /\ pheader = None

\* A step that is no request: last and resp describe the previous step only.
Quiet == last' = NoRequest /\ resp' = NoResponse /\ pheader' = None /\ flow' = flow

Respond(r) ==
  /\ resp' = r
  /\ pheader' = None
  /\ jar' = [state |-> AfterCookie(jar.state, r.state), auth |-> AfterCookie(jar.auth, r.auth)]

\* GET /auth/login?redirect_uri=...
LoginStep(redirect_uri) ==
  LET r == LoginResponse(redirect_uri, now)
  IN /\ Respond(r)
     /\ last' = [NoRequest EXCEPT !.op = "Login", !.redirect_uri = redirect_uri, !.jar = jar]
     /\ origin' = IF r.state = Keep THEN origin ELSE "login"
     /\ UNCHANGED <<now, modVars, cacheVars, streamVars, proxyVars>>

Login(redirect_uri) == LoginStep(redirect_uri) /\ UNCHANGED flow

\* The state values a callback request may carry: the cookie's own value (the
\* provider echoes what Login sent), no value, or a value from elsewhere.
StateParams ==
  (IF IsSome(jar.state) THEN {Val(jar.state)} ELSE {})
  \cup RawTexts \cup {EncText(<<"/", "h">>, 0)}

\* GET /auth/callback?code=...&state=...&error=...
CallbackStep(errType, formState, exchangeOk, token) ==
  LET r == CallbackResponse(errType, formState, jar.state, exchangeOk, token)
  IN /\ Respond(r)
     /\ last' = [NoRequest EXCEPT !.op = "Callback", !.error = errType, !.state = formState,
                                  !.exchangeOk = exchangeOk, !.jar = jar]
     /\ UNCHANGED <<origin, now, modVars, cacheVars, streamVars, proxyVars>>

Callback(errType, formState, exchangeOk, token) ==
  CallbackStep(errType, formState, exchangeOk, token) /\ UNCHANGED flow

\* GET /auth/logout?redirect_uri=...
LogoutStep(redirect_uri) ==
  LET r == LogoutResponse(redirect_uri)
  IN /\ Respond(r)
     /\ last' = [NoRequest EXCEPT !.op = "Logout", !.redirect_uri = redirect_uri, !.jar = jar]
     /\ UNCHANGED <<origin, now, modVars, cacheVars, streamVars, proxyVars>>

Logout(redirect_uri) == LogoutStep(redirect_uri) /\ UNCHANGED flow

\* The same three requests, with the browser's history kept in flow.
SessionLogin(redirect_uri) ==
  /\ LoginStep(redirect_uri)
  /\ flow' = IF LoginResponse(redirect_uri, now).status # 307 THEN flow
             ELSE [logout |-> IF flow.logout = "logout" THEN "login" ELSE flow.logout,
                   consumed |-> None]

SessionCallback(errType, formState, exchangeOk, token) ==
  /\ CallbackStep(errType, formState, exchangeOk, token)
  /\ flow' = IF CallbackResponse(errType, formState, jar.state, exchangeOk, token).status # 307
             THEN flow
             ELSE [logout |-> IF flow.logout = "login" THEN "none" ELSE flow.logout,
                   consumed |-> Some(formState)]

SessionLogout(redirect_uri) ==
  /\ LogoutStep(redirect_uri)
  /\ flow' = IF LogoutResponse(redirect_uri).status # 307 THEN flow
             ELSE [flow EXCEPT !.logout = "logout"]

\* GET /auth/userinfo
UserInfoRequest ==
  LET r == UserInfo(jar.auth)
  IN /\ Respond([Response(r.status, r.state, r.auth, NoRedirect) EXCEPT !.body = r.body])
     /\ last' = [NoRequest EXCEPT !.op = "UserInfo", !.jar = jar]
     /\ UNCHANGED <<origin, now, flow, modVars, cacheVars, streamVars, proxyVars>>

\* The state cookie expires (one hour after Login) or is dropped by the browser.
StateCookieExpires ==
  /\ IsSome(jar.state)
  /\ jar' = [jar EXCEPT !.state = None]
  /\ Quiet
  /\ UNCHANGED <<origin, now, modVars, cacheVars, streamVars, proxyVars>>

\* The session cookie expires (token expiry).
AuthCookieExpires ==
  /\ IsSome(jar.auth)
  /\ jar' = [jar EXCEPT !.auth = None]
  /\ Quiet
  /\ UNCHANGED <<origin, now, modVars, cacheVars, streamVars, proxyVars>>

\* Cookies are client-held: the client may present any state cookie.
ClientTexts ==
  RawTexts \cup {EncText(u, 0) : u \in {<<>>, <<"/", "h">>, <<"h", ":", "/", "/", "h">>}}
ClientSetsStateCookie(text) ==
  /\ jar' = [jar EXCEPT !.state = Some(text)]
  /\ origin' = "client"
  /\ Quiet
  /\ UNCHANGED <<now, modVars, cacheVars, streamVars, proxyVars>>

\* ... and any session cookie.
MaxSegments == 3
SessionCookies ==
  {<<"Bearer", segments>> : segments \in UNION {[1..n -> Segments] : n \in 1..MaxSegments}}
ClientSetsAuthCookie(value) ==
  /\ ~IsSome(jar.auth)
  /\ jar' = [jar EXCEPT !.auth = Some(value)]
  /\ Quiet
  /\ UNCHANGED <<origin, now, modVars, cacheVars, streamVars, proxyVars>>

Tick ==
  /\ now < MaxTime
  /\ now' = now + 1
  /\ Quiet
  /\ UNCHANGED <<jar, origin, modVars, cacheVars, streamVars, proxyVars>>

(***************************************************************************)
(* The outbound request's headers, as ModifyHeader sees them.  Cookie is   *)
(* the list of Cookie header lines, one cookie each; Authorization is the  *)
(* list of Authorization header values.                                    *)
(***************************************************************************)
MaxCookies == 2
MaxApply == 2
CookieNames == {"auth", "other"}
\* A value with a byte that net/http refuses in a cookie value is "v\"".
CookieValues == {"v1", "v2", "v\""}
CookieLines == [Name : CookieNames, Value : CookieValues]
AuthorizationValues == {"a0"}
Headers ==
  [Cookie : UNION {[1..n -> CookieLines] : n \in 0..MaxCookies},
   Authorization : UNION {[1..n -> AuthorizationValues] : n \in 0..1}]

\* net/http readCookies keeps the cookies with the wanted name and a valid value.
validCookieValue(v) == v # "v\""
\* Request.Cookie(name): the first valid cookie of that name, or ErrNoCookie.
RequestCookie(header, name) ==
  LET found == {i \in 1..Len(header.Cookie) :
                  header.Cookie[i].Name = name /\ validCookieValue(header.Cookie[i].Value)}
  IN IF found = {} THEN None
     ELSE Some(header.Cookie[CHOOSE i \in found : \A j \in found : i <= j])

\* authServer.ModifyHeader
ModifyHeaderKeepsCookie(header) ==
  LET cookie == RequestCookie(header, "auth")
  IN IF ~IsSome(cookie) THEN header
     ELSE [header EXCEPT !.Authorization = Append(@, Val(cookie).Value)]

ModifyHeaderStripsSessionOnly(header) ==
  LET cookie == RequestCookie(header, "auth")
  IN IF ~IsSome(cookie) THEN header
     ELSE [Authorization |-> Append(header.Authorization, Val(cookie).Value),
           Cookie |-> SelectSeq(header.Cookie, LAMBDA c : c.Name # "auth")]

ModifyHeaderAlwaysStrips(header) ==
  LET cookie == RequestCookie(header, "auth")
  IN IF ~IsSome(cookie) THEN [header EXCEPT !.Cookie = <<>>]
     ELSE [Authorization |-> Append(header.Authorization, Val(cookie).Value),
           Cookie |-> <<>>]

ModifyHeader(header) ==
  LET cookie == RequestCookie(header, "auth")
  IN IF ~IsSome(cookie) THEN header
     ELSE [Authorization |-> Append(header.Authorization, Val(cookie).Value),
           Cookie |-> <<>>]

\* The error ModifyHeader returns: nil on both paths.
ModifyHeaderError(header) ==
  IF ~IsSome(RequestCookie(header, "auth")) THEN "nil" ELSE "nil"

InitModify == mtrace \in {<<h>> : h \in Headers}
IdleModify == mtrace = <<>>

\* One more application of ModifyHeader to the same request.
ApplyModifyHeader ==
  /\ Len(mtrace) >= 1
  /\ Len(mtrace) <= MaxApply
  /\ mtrace' = Append(mtrace, ModifyHeader(mtrace[Len(mtrace)]))
  /\ UNCHANGED <<authVars, cacheVars, streamVars, proxyVars>>

NextModify == ApplyModifyHeader

\* A request under the proxy path: the browser sends its cookies and
\* NewRequest runs ModifyHeader on the outbound request.
BrowserHeader ==
  [Cookie |-> (IF IsSome(jar.state) THEN <<[Name |-> "state", Value |-> "s"]>> ELSE <<>>)
              \o (IF IsSome(jar.auth)
                  THEN <<[Name |-> "auth", Value |-> CookieString(Val(jar.auth))]>>
                  ELSE <<>>),
   Authorization |-> <<>>]

ProxyRequest ==
  /\ pheader' = Some(ModifyHeader(BrowserHeader))
  /\ last' = [NoRequest EXCEPT !.op = "Proxy", !.jar = jar]
  /\ resp' = NoResponse
  /\ UNCHANGED <<jar, origin, now, flow, modVars, cacheVars, streamVars, proxyVars>>

NextAuth ==
  \/ \E u \in AllUris : Logout(u)
  \/ \E u \in AllUris : Login(u)
  \/ \E e \in {"", "access_denied"}, s \in StateParams, x \in BOOLEAN, t \in Tokens :
       Callback(e, s, x, t)
  \/ UserInfoRequest
  \/ ProxyRequest
  \/ StateCookieExpires
  \/ AuthCookieExpires
  \/ \E t \in ClientTexts : ClientSetsStateCookie(t)
  \/ Tick

\* The redirect targets of the session flows: none, a local path, a host.
SessionUris == {<<>>, <<"/", "h">>, <<"h", ":", "/", "/", "h">>}

NextSession ==
  \/ \E u \in SessionUris : SessionLogout(u)
  \/ \E u \in SessionUris : SessionLogin(u)
  \/ \E e \in {"", "access_denied"}, s \in StateParams, x \in BOOLEAN, t \in Tokens :
       SessionCallback(e, s, x, t)
  \/ UserInfoRequest
  \/ ProxyRequest
  \/ StateCookieExpires
  \/ AuthCookieExpires
  \/ \E t \in ClientTexts : ClientSetsStateCookie(t)
  \/ Tick

\* GET /auth/userinfo with whatever session cookie the client holds.
NextUserInfo ==
  \/ UserInfoRequest
  \/ \E v \in SessionCookies : ClientSetsAuthCookie(v)


(***************************************************************************)
(* The cache layer: proxyCache.ServeHTTP in front of a groupcache group    *)
(* whose getter (cacheGetter) runs the wrapped handler.  A request goes    *)
(* through Group.Get: a lookup; on a miss the singleflight Do, which joins *)
(* a load in flight for the key or leads one; the leader looks up again,   *)
(* runs the getter and populates the cache.                                *)
(***************************************************************************)
NumReqs == 2
MaxTTL == 2
MaxClock == 2
Reqs == 1..NumReqs
Urls == {"/data?x=1", "/data?x=2"}
Bodies == {"b1", "b2"}
\* groupcache.NewGroup("cache", 64<<20, getter): the ceiling of the cache, in
\* bytes.  The body b3 alone is larger than the ceiling.
cacheBytes == 64 * (2 ^ 20)
LargeBody == "b3"
Size(body) == IF body = LargeBody THEN cacheBytes + 1 ELSE Len(body)
\* What the wrapped handler may answer: a status and a body.
HandlerAnswers ==
  {[status |-> 200, body |-> "b1"], [status |-> 200, body |-> "b2"],
   [status |-> 404, body |-> "b1"], [status |-> 500, body |-> "b2"]}
\* The answers of a handler that may also return the large body.
ReplayAnswers ==
  {[status |-> 200, body |-> "b1"], [status |-> 200, body |-> "b2"],
   [status |-> 200, body |-> LargeBody], [status |-> 404, body |-> "b1"]}

\* time.Time.Round(d): the nearest multiple of d, halfway values rounded up;
\* t itself when d <= 0.
Truncate(t, d) == IF d <= 0 THEN t ELSE t - (t % d)

Round(t, d) ==
  IF d <= 0 THEN t
  ELSE LET r == t % d
       IN IF r + r < d THEN t - r ELSE t + d - r

\* The key of the url alone, with no time in it.
CacheKeyOfUrl(t, d, url) == <<0, url>>

\* The key of the instant itself, with no rounding.
CacheKeyOfInstant(t, d, url) == <<t, url>>

\* fmt.Sprintf("[%v]%v", time.Now().Round(c.Duration), url)
CacheKey(t, d, url) == <<Round(t, d), url>>

NoOutcome == [err |-> 0, data |-> ""]
NoCacheRequest ==
  [pc |-> "idle", url |-> "", t |-> 0, key |-> <<0, "">>, out |-> NoOutcome,
   status |-> 0, body |-> "",
   \* history: the load joined, the handler's answer, where the outcome came
   \* from (0: the cache), the requests in progress and done at the start
   joined |-> 0, invoked |-> FALSE, hstatus |-> 0, hbody |-> "", src |-> 0,
   conc |-> {}, before |-> {},
   \* history: the handler ran with a context that was done, and where the
   \* request was when its client disconnected
   aborted |-> FALSE, goneAt |-> ""]

InitCache ==
  /\ ttl \in 1..MaxTTL
  /\ ctime = 0
  /\ creq = [r \in Reqs |-> NoCacheRequest]
  /\ cache = {}
  /\ flights = {}
  /\ cgone = {}

IdleCache ==
  /\ ttl = 1
  /\ ctime = 0
  /\ creq = [r \in Reqs |-> NoCacheRequest]
  /\ cache = {}
  /\ flights = {}
  /\ cgone = {}

\* Group.lookupCache
CacheHit(key) == \E e \in cache : e.key = key
CacheData(key) == (CHOOSE e \in cache : e.key = key).data
\* singleflight: a call for the key is in flight
NoFlights(key) == FALSE

InFlight(key) == key \in flights
Leader(key) == CHOOSE q \in Reqs : creq[q].key = key /\ creq[q].pc \in {"fn", "handler", "fnret"}

\* cacheWriter.WriteCache: an error for a status >= 400, the body otherwise.
WriteCacheAlways(answer) == [err |-> 0, data |-> answer.body]

WriteCache(answer) ==
  IF answer.status >= 400 THEN [err |-> answer.status, data |-> ""]
  ELSE [err |-> 0, data |-> answer.body]

\* proxyCache.serveError: the status of an HttpError, 500 for any other error.
serveError(err) == [status |-> err, body |-> ""]

\* proxyCache.ServeHTTP up to the call of Getter.Get: the key is computed.
\* Requests are numbered in their order of arrival, and the urls in the order
\* of their first request.
CacheStart(r, url) ==
  /\ creq[r].pc = "idle"
  /\ \A q \in Reqs : q < r => creq[q].pc # "idle"
  /\ r = 1 => url = "/data?x=1"
  /\ creq' = [creq EXCEPT ![r] =
       [@ EXCEPT !.pc = "get", !.url = url, !.t = ctime,
                 !.key = CacheKey(ctime, ttl, url),
                 !.conc = {q \in Reqs : creq[q].pc \notin {"idle", "done"}},
                 !.before = {q \in Reqs : creq[q].pc = "done"}]]
  /\ UNCHANGED <<ttl, ctime, cache, flights, cgone, authVars, modVars, streamVars, proxyVars>>

\* Group.Get: the first lookup.
CacheLookup(r) ==
  /\ creq[r].pc = "get"
  /\ creq' = [creq EXCEPT ![r] =
       IF CacheHit(@.key)
       THEN [@ EXCEPT !.pc = "got", !.out = [err |-> 0, data |-> CacheData(creq[r].key)]]
       ELSE [@ EXCEPT !.pc = "do"]]
  /\ UNCHANGED <<ttl, ctime, cache, flights, cgone, authVars, modVars, streamVars, proxyVars>>

\* singleflight Do: join the load in flight, or become its leader.
CacheDo(r) ==
  /\ creq[r].pc = "do"
  /\ IF InFlight(creq[r].key)
     THEN /\ creq' = [creq EXCEPT ![r] =
                 [@ EXCEPT !.pc = "wait", !.joined = Leader(creq[r].key)]]
          /\ UNCHANGED flights
     ELSE /\ creq' = [creq EXCEPT ![r] = [@ EXCEPT !.pc = "fn"]]
          /\ flights' = flights \cup {creq[r].key}
  /\ UNCHANGED <<ttl, ctime, cache, cgone, authVars, modVars, streamVars, proxyVars>>

\* The leader's function: the second lookup; on a miss the getter starts the
\* wrapped handler (cacheGetter.Get up to Handler.ServeHTTP).
CacheLoad(r) ==
  /\ creq[r].pc = "fn"
  /\ creq' = [creq EXCEPT ![r] =
       IF CacheHit(@.key)
       THEN [@ EXCEPT !.pc = "fnret", !.out = [err |-> 0, data |-> CacheData(creq[r].key)]]
       ELSE [@ EXCEPT !.pc = "handler", !.invoked = TRUE, !.src = r]]
  /\ UNCHANGED <<ttl, ctime, cache, flights, cgone, authVars, modVars, streamVars, proxyVars>>

\* The headers of the inbound request r: the credentials of its client.
\* Requests 1, 3, ... come from one client and 2, 4, ... from another.
InboundHeaders(r) ==
  IF r % 2 = 1 THEN [Cookie |-> "auth=v1"] ELSE [Cookie |-> "auth=v2"]

\* context.Background(), and the context of the inbound request r.
Background == 0
ContextDone(ctx) == ctx \in cgone

\* The handler's request made with the context of the inbound request.
createRequestWithContext(r) ==
  [ctx |-> r, url |-> creq[r].url, Header |-> InboundHeaders(r)]

\* cacheGetter.createRequest: http.NewRequest("GET", url, nil), so the
\* request has the background context; its headers are the inbound ones.
createRequest(r) ==
  [ctx |-> Background, url |-> creq[r].url, Header |-> InboundHeaders(r)]

\* The wrapped handler run with a context that is done: Client.Do fails and
\* handleError answers 500 with the error's text.
Aborted == [status |-> 500, body |-> "context canceled"]
HandlerAnswer(req, answer) == IF ContextDone(req.ctx) THEN Aborted ELSE answer

\* Group.populateCache: the entry is added, and the oldest entries are
\* removed while the cache is over its ceiling.  The other bodies of the
\* model never fill the cache together, so only an entry that is larger than
\* the ceiling by itself evicts: every older entry first, and then itself.
populateCache(c, key, data) ==
  IF Size(data) > cacheBytes THEN {} ELSE c \cup {[key |-> key, data |-> data]}

\* The wrapped handler returns; WriteCache; on success the group populates
\* the cache.
HandlerReturns(r, answer) ==
  /\ creq[r].pc = "handler"
  /\ LET req == createRequest(r)
         a == HandlerAnswer(req, answer)
     IN /\ creq' = [creq EXCEPT ![r] =
              [@ EXCEPT !.pc = "fnret", !.out = WriteCache(a),
                        !.hstatus = a.status, !.hbody = a.body,
                        !.aborted = ContextDone(req.ctx)]]
        /\ cache' = IF WriteCache(a).err = 0
                    THEN populateCache(cache, creq[r].key, WriteCache(a).data)
                    ELSE cache
  /\ UNCHANGED <<ttl, ctime, flights, cgone, authVars, modVars, streamVars, proxyVars>>

\* singleflight Do returns: the call's result is published to the requests
\* that joined it, and the call leaves the map.
CacheDoReturns(r) ==
  /\ creq[r].pc = "fnret"
  /\ creq' = [q \in Reqs |->
       IF q = r THEN [creq[q] EXCEPT !.pc = "got"]
       ELSE IF creq[q].pc = "wait" /\ creq[q].joined = r
       THEN [creq[q] EXCEPT !.pc = "got", !.out = creq[r].out, !.src = creq[r].src]
       ELSE creq[q]]
  /\ flights' = flights \ {creq[r].key}
  /\ UNCHANGED <<ttl, ctime, cache, cgone, authVars, modVars, streamVars, proxyVars>>

\* proxyCache.ServeHTTP after Getter.Get: serveError, or 200 and the bytes.
CacheRespond(r) ==
  /\ creq[r].pc = "got"
  /\ creq' = [creq EXCEPT ![r] =
       IF @.out.err # 0
       THEN [@ EXCEPT !.pc = "done", !.status = serveError(creq[r].out.err).status,
                      !.body = serveError(creq[r].out.err).body]
       ELSE [@ EXCEPT !.pc = "done", !.status = 200, !.body = creq[r].out.data]]
  /\ UNCHANGED <<ttl, ctime, cache, flights, cgone, authVars, modVars, streamVars, proxyVars>>

\* Time passes.  The clock is read by ServeHTTP when a request arrives, and
\* by nothing once every request has arrived.
CacheTick ==
  /\ ctime < MaxClock
  /\ \E r \in Reqs : creq[r].pc = "idle"
  /\ ctime' = ctime + 1
  /\ UNCHANGED <<ttl, creq, cache, flights, cgone, authVars, modVars, streamVars, proxyVars>>

\* The client of the inbound request r disconnects while r is served: the
\* server cancels r.Context().  One client disconnects.
ClientDisconnects(r) ==
  /\ creq[r].pc \notin {"idle", "done"}
  /\ cgone = {}
  /\ cgone' = cgone \cup {r}
  /\ creq' = [creq EXCEPT ![r] = [@ EXCEPT !.goneAt = creq[r].pc]]
  /\ UNCHANGED <<ttl, ctime, cache, flights, authVars, modVars, streamVars, proxyVars>>

\* Time passes, over several windows; requests only arrive.
MaxInstant == 6
KeyTick ==
  /\ ctime < MaxInstant
  /\ ctime' = ctime + 1
  /\ UNCHANGED <<ttl, creq, cache, flights, cgone, authVars, modVars, streamVars, proxyVars>>

NextKey ==
  \/ \E r \in Reqs, u \in Urls : CacheStart(r, u)
  \/ KeyTick

\* The requests are for one url, within one window.
NextCancel ==
  \/ \E r \in Reqs : CacheStart(r, "/data?x=1")
  \/ \E r \in Reqs : CacheLookup(r)
  \/ \E r \in Reqs : CacheDo(r)
  \/ \E r \in Reqs : CacheLoad(r)
  \/ \E r \in Reqs, a \in HandlerAnswers : HandlerReturns(r, a)
  \/ \E r \in Reqs : CacheDoReturns(r)
  \/ \E r \in Reqs : CacheRespond(r)
  \/ \E r \in Reqs : ClientDisconnects(r)

\* Requests for one url over several windows, with a handler that may return
\* a body larger than the cache.
NextReplay ==
  \/ \E r \in Reqs : CacheStart(r, "/data?x=1")
  \/ \E r \in Reqs : CacheLookup(r)
  \/ \E r \in Reqs : CacheDo(r)
  \/ \E r \in Reqs : CacheLoad(r)
  \/ \E r \in Reqs, a \in ReplayAnswers : HandlerReturns(r, a)
  \/ \E r \in Reqs : CacheDoReturns(r)
  \/ \E r \in Reqs : CacheRespond(r)
  \/ CacheTick

NextCache ==
  \/ \E r \in Reqs, u \in Urls : CacheStart(r, u)
  \/ \E r \in Reqs : CacheLookup(r)
  \/ \E r \in Reqs : CacheDo(r)
  \/ \E r \in Reqs : CacheLoad(r)
  \/ \E r \in Reqs, a \in HandlerAnswers : HandlerReturns(r, a)
  \/ \E r \in Reqs : CacheDoReturns(r)
  \/ \E r \in Reqs : CacheRespond(r)
  \/ CacheTick

(***************************************************************************)
(* The proxy: proxyServer.Serve (NewRequest and its modifiers, Client.Do,  *)
(* handleError, the copy of the upstream's headers and status) and the     *)
(* event-stream relay proxyServer.Stream: a forwarding goroutine that      *)
(* reads the upstream body and writes to the client, and a loop that       *)
(* flushes every 100 ms until the request's context is done.               *)
(***************************************************************************)
MaxChunks == 2
MaxFlushCount == 2
ContentTypes == {"text/event-stream", "text/event-stream; charset=utf-8", "text/plain"}
NotSupported == "Streaming not supported"
MaxModifiers == 2

\* An error is the chain errors.As walks, outermost first: a wrapper with an
\* Unwrap method (fmt.Errorf with %w, *url.Error), a *statusError, or any
\* other error.  What follows a *statusError or an other error in the chain
\* is what it was made from, which Unwrap does not reach.
WrapLayer == [kind |-> "wrap", code |-> 0]
PlainLayer == [kind |-> "plain", code |-> 0]
StatusLayer(c) == [kind |-> "status", code |-> c]
Wrap(err) == <<WrapLayer>> \o err
\* What a modifier or the transport may fail with.
Failures ==
  {<<PlainLayer>>, <<StatusLayer(404)>>, <<WrapLayer, StatusLayer(503)>>,
   <<PlainLayer, StatusLayer(404)>>, <<StatusLayer(503), StatusLayer(404)>>}

\* errors.As(err, &statusErr)
RECURSIVE errorsAs(_)
errorsAs(err) ==
  IF err = <<>> THEN None
  ELSE IF err[1].kind = "status" THEN Some(err[1].code)
  ELSE IF err[1].kind = "wrap" THEN errorsAs(Tail(err))
  ELSE None

\* proxyServer.handleError: the status it answers with.
handleErrorTypeSwitch(err) ==
  IF err[1].kind = "status" THEN err[1].code ELSE 500

handleError(err) ==
  IF IsSome(errorsAs(err)) THEN Val(errorsAs(err)) ELSE 500

\* The upstream's responses: a status, a Content-Type and maybe another header.
UpstreamStatuses == {200, 404}
UpstreamHeaders ==
  {{<<"Content-Type", ct>>} \cup x : ct \in ContentTypes, x \in {{}, {<<"X-Up", "1">>}}}
HeaderGet(header, name) ==
  IF \E h \in header : h[1] = name THEN (CHOOSE h \in header : h[1] = name)[2] ELSE ""
NoUpstreamResponse == [status |-> 0, header |-> {}]
NoStatus == [code |-> 0, header |-> {}]
NoError == [cause |-> <<>>, handled |-> <<>>]

\* bufio.Writer: buf up to n is what a Flush will send.
NoBuffer == [buf |-> <<>>, n |-> 0, err |-> FALSE]
\* bufio.Writer.Write by the one goroutine that uses the writer.
BufferWrite(b, chunk) == [b EXCEPT !.buf = Append(SubSeq(b.buf, 1, b.n), chunk), !.n = b.n + 1]
Buffered(b) == SubSeq(b.buf, 1, b.n)

InitStream ==
  /\ upstream = [sent |-> 0, eof |-> FALSE]
  /\ nread = 0
  /\ ctxDone = FALSE
  /\ bodyClosed = FALSE
  /\ flusherOk \in BOOLEAN
  /\ serve = "new"
  /\ fwd = [pc |-> "none", buf |-> 0]
  /\ loop = "none"
  /\ swritten = <<>>
  /\ sflushed = 0
  /\ flushesAfterCancel = 0
  /\ bw = NoBuffer
  /\ wire = <<>>
  /\ held = [w |-> 0, f |-> 0]
  /\ nmods \in 0..MaxModifiers
  /\ ran = <<>>
  /\ outbound = 0
  /\ perr = NoError
  /\ uresp = NoUpstreamResponse
  /\ sheader = {}
  /\ sstatus = NoStatus

IdleStream ==
  /\ upstream = [sent |-> 0, eof |-> FALSE]
  /\ nread = 0
  /\ ctxDone = FALSE
  /\ bodyClosed = FALSE
  /\ flusherOk = TRUE
  /\ serve = "new"
  /\ fwd = [pc |-> "none", buf |-> 0]
  /\ loop = "none"
  /\ swritten = <<>>
  /\ sflushed = 0
  /\ flushesAfterCancel = 0
  /\ bw = NoBuffer
  /\ wire = <<>>
  /\ held = [w |-> 0, f |-> 0]
  /\ nmods = 0
  /\ ran = <<>>
  /\ outbound = 0
  /\ perr = NoError
  /\ uresp = NoUpstreamResponse
  /\ sheader = {}
  /\ sstatus = NoStatus

\* The upstream writes a chunk of its body, or ends it.
UpstreamSends ==
  /\ serve \notin {"new", "modify", "do", "done"}
  /\ ~upstream.eof
  /\ upstream.sent < MaxChunks
  /\ upstream' = [upstream EXCEPT !.sent = @ + 1]
  /\ UNCHANGED <<nread, ctxDone, bodyClosed, flusherOk, serve, fwd, loop,
                 swritten, sflushed, flushesAfterCancel, wireVars, authVars, modVars, cacheVars, proxyVars>>

UpstreamCloses ==
  /\ serve \notin {"new", "modify", "do", "done"}
  /\ ~upstream.eof
  /\ upstream' = [upstream EXCEPT !.eof = TRUE]
  /\ UNCHANGED <<nread, ctxDone, bodyClosed, flusherOk, serve, fwd, loop,
                 swritten, sflushed, flushesAfterCancel, wireVars, authVars, modVars, cacheVars, proxyVars>>

\* The client disconnects: the inbound request's context is cancelled, and
\* with it the outbound request made from it.
Cancel ==
  /\ serve # "done"
  /\ ~ctxDone
  /\ ctxDone' = TRUE
  /\ UNCHANGED <<upstream, nread, bodyClosed, flusherOk, serve, fwd, loop,
                 swritten, sflushed, flushesAfterCancel, wireVars, authVars, modVars, cacheVars, proxyVars>>

\* Serve hands an error to handleError, which answers with http.Error.
Fail(cause, handled) ==
  /\ perr' = [cause |-> cause, handled |-> handled]
  /\ sstatus' = [code |-> handleError(handled), header |-> sheader]
  /\ swritten' = <<"error">>
  /\ serve' = "done"

\* NewRequest: http.NewRequestWithContext, then the inbound headers are
\* copied; a failure is wrapped by NewRequest and again by Serve.
ServeNewRequest(ok) ==
  /\ serve = "new"
  /\ IF ok
     THEN /\ serve' = "modify"
          /\ UNCHANGED <<perr, sstatus, swritten>>
     ELSE Fail(<<PlainLayer>>, Wrap(Wrap(<<PlainLayer>>)))
  /\ UNCHANGED <<upstream, nread, ctxDone, bodyClosed, flusherOk, fwd, loop,
                 sflushed, flushesAfterCancel, wireVars, nmods, ran, outbound, uresp, sheader,
                 authVars, modVars, cacheVars>>

\* NewRequest: the next modifier runs; its error is wrapped by NewRequest
\* and again by Serve.
ServeModifierIgnoresError(failure) ==
  /\ serve = "modify"
  /\ Len(ran) < nmods
  /\ ran' = Append(ran, [mod |-> Len(ran) + 1, err |-> failure])
  /\ UNCHANGED <<serve, perr, sstatus, swritten>>
  /\ UNCHANGED <<upstream, nread, ctxDone, bodyClosed, flusherOk, fwd, loop,
                 sflushed, flushesAfterCancel, wireVars, nmods, outbound, uresp, sheader,
                 authVars, modVars, cacheVars>>

ServeModifier(failure) ==
  /\ serve = "modify"
  /\ Len(ran) < nmods
  /\ ran' = Append(ran, [mod |-> Len(ran) + 1, err |-> failure])
  /\ IF failure = <<>>
     THEN UNCHANGED <<serve, perr, sstatus, swritten>>
     ELSE Fail(failure, Wrap(Wrap(failure)))
  /\ UNCHANGED <<upstream, nread, ctxDone, bodyClosed, flusherOk, fwd, loop,
                 sflushed, flushesAfterCancel, wireVars, nmods, outbound, uresp, sheader,
                 authVars, modVars, cacheVars>>

\* NewRequest returns the request and Serve calls Client.Do.
ServeDo ==
  /\ serve = "modify"
  /\ Len(ran) = nmods
  /\ outbound' = outbound + 1
  /\ serve' = "do"
  /\ UNCHANGED <<upstream, nread, ctxDone, bodyClosed, flusherOk, fwd, loop,
                 swritten, sflushed, flushesAfterCancel, wireVars, nmods, ran, perr, uresp,
                 sheader, sstatus, authVars, modVars, cacheVars>>

\* Serve: Client.Do fails, handleError answers.  Client.Do returns the
\* transport's error inside a *url.Error, and Serve wraps it.
ServeDoFails(failure) ==
  /\ serve = "do"
  /\ Fail(failure, Wrap(Wrap(failure)))
  /\ UNCHANGED <<upstream, nread, ctxDone, bodyClosed, flusherOk, fwd, loop,
                 sflushed, flushesAfterCancel, wireVars, nmods, ran, outbound, uresp, sheader,
                 authVars, modVars, cacheVars>>

\* Serve: Client.Do answers.
ServeResponse(status, header) ==
  /\ serve = "do"
  /\ ~ctxDone
  /\ uresp' = [status |-> status, header |-> header]
  /\ serve' = "headers"
  /\ UNCHANGED <<upstream, nread, ctxDone, bodyClosed, flusherOk, fwd, loop,
                 swritten, sflushed, flushesAfterCancel, wireVars, nmods, ran, outbound, perr,
                 sheader, sstatus, authVars, modVars, cacheVars>>

\* Serve: every header of the upstream's response is added to w.Header().
ServeSkipsHeaders ==
  /\ serve = "headers"
  /\ serve' = "status"
  /\ UNCHANGED <<upstream, nread, ctxDone, bodyClosed, flusherOk, fwd, loop,
                 swritten, sflushed, flushesAfterCancel, wireVars, nmods, ran, outbound, perr,
                 uresp, sheader, sstatus, authVars, modVars, cacheVars>>

ServeCopyHeaders ==
  /\ serve = "headers"
  /\ sheader' = sheader \cup uresp.header
  /\ serve' = "status"
  /\ UNCHANGED <<upstream, nread, ctxDone, bodyClosed, flusherOk, fwd, loop,
                 swritten, sflushed, flushesAfterCancel, wireVars, nmods, ran, outbound, perr,
                 uresp, sstatus, authVars, modVars, cacheVars>>

\* Serve: w.WriteHeader(resp.StatusCode) sends the status with the headers as
\* they are now, and the relay is chosen by the Content-Type.
ServeWriteHeaderByMediaType ==
  /\ serve = "status"
  /\ sstatus' = [code |-> uresp.status, header |-> sheader]
  /\ serve' = IF HeaderGet(uresp.header, "Content-Type") \in
                    {"text/event-stream", "text/event-stream; charset=utf-8"}
              THEN "stream" ELSE "copy"
  /\ UNCHANGED <<upstream, nread, ctxDone, bodyClosed, flusherOk, fwd, loop,
                 swritten, sflushed, flushesAfterCancel, wireVars, nmods, ran, outbound, perr,
                 uresp, sheader, authVars, modVars, cacheVars>>

ServeWriteHeader ==
  /\ serve = "status"
  /\ sstatus' = [code |-> uresp.status, header |-> sheader]
  /\ serve' = IF HeaderGet(uresp.header, "Content-Type") = "text/event-stream"
              THEN "stream" ELSE "copy"
  /\ UNCHANGED <<upstream, nread, ctxDone, bodyClosed, flusherOk, fwd, loop,
                 swritten, sflushed, flushesAfterCancel, wireVars, nmods, ran, outbound, perr,
                 uresp, sheader, authVars, modVars, cacheVars>>

\* Serve: io.Copy(w, resp.Body) moves a chunk.
CopyChunk ==
  /\ serve = "copy"
  /\ nread < upstream.sent
  /\ nread' = nread + 1
  /\ swritten' = Append(swritten, nread + 1)
  /\ bw' = BufferWrite(bw, nread + 1)
  /\ UNCHANGED <<upstream, ctxDone, bodyClosed, flusherOk, serve, fwd, loop,
                 sflushed, flushesAfterCancel, wire, held, authVars, modVars, cacheVars, proxyVars>>

\* Serve: io.Copy ends at the end of the body or on an error, Serve returns
\* and the deferred resp.Body.Close() runs; the server then flushes what the
\* writer has buffered.
CopyEnds ==
  /\ serve = "copy"
  /\ ctxDone \/ (upstream.eof /\ nread = upstream.sent)
  /\ serve' = "done"
  /\ bodyClosed' = TRUE
  /\ wire' = wire \o Buffered(bw)
  /\ bw' = NoBuffer
  /\ UNCHANGED <<upstream, nread, ctxDone, flusherOk, fwd, loop,
                 swritten, sflushed, flushesAfterCancel, held, authVars, modVars, cacheVars, proxyVars>>

\* Stream begins: without an http.Flusher it writes an error and returns;
\* otherwise it starts the forwarding goroutine and enters the flush loop.
StreamStart ==
  /\ serve = "stream"
  /\ loop = "none"
  /\ IF flusherOk
     THEN /\ fwd' = [pc |-> "read", buf |-> 0]
          /\ loop' = "select"
          /\ UNCHANGED <<swritten, bw>>
     ELSE /\ loop' = "returned"
          /\ swritten' = Append(swritten, NotSupported)
          /\ bw' = BufferWrite(bw, NotSupported)
          /\ UNCHANGED fwd
  /\ UNCHANGED <<upstream, nread, ctxDone, bodyClosed, flusherOk, serve,
                 sflushed, flushesAfterCancel, wire, held, authVars, modVars, cacheVars, proxyVars>>

\* The forwarder's resp.Body.Read: it blocks while the body has nothing new
\* and is open; it fails at the end of the body, once the body is closed, and
\* once the context is cancelled (bytes already received may still come out).
FwdRead ==
  /\ fwd.pc = "read"
  /\ \/ /\ nread < upstream.sent
        /\ ~bodyClosed
        /\ fwd' = [pc |-> "write", buf |-> nread + 1]
        /\ nread' = nread + 1
     \/ /\ \/ upstream.eof /\ nread = upstream.sent
           \/ bodyClosed
           \/ ctxDone
        /\ fwd' = [pc |-> "done", buf |-> 0]
        /\ UNCHANGED nread
  /\ UNCHANGED <<upstream, ctxDone, bodyClosed, flusherOk, serve, loop,
                 swritten, sflushed, flushesAfterCancel, wireVars, authVars, modVars, cacheVars, proxyVars>>

\* The forwarder's w.Write, which is bufio.Writer.Write on the response's
\* writer, with no lock against the flush loop's Flush: it reads the count n
\* and copies the chunk into the buffer at n ...  It fails when the writer
\* holds an error, and may fail once the client is gone.
FwdWrite ==
  /\ fwd.pc = "write"
  /\ \/ /\ ~bw.err
        /\ held' = [held EXCEPT !.w = bw.n]
        /\ bw' = [bw EXCEPT !.buf = Append(SubSeq(bw.buf, 1, bw.n), fwd.buf)]
        /\ fwd' = [fwd EXCEPT !.pc = "store"]
     \/ /\ ctxDone \/ bw.err
        /\ fwd' = [pc |-> "done", buf |-> 0]
        /\ UNCHANGED <<bw, held>>
  /\ UNCHANGED <<upstream, nread, ctxDone, bodyClosed, flusherOk, serve, loop,
                 swritten, sflushed, flushesAfterCancel, wire, authVars, modVars, cacheVars, proxyVars>>

\* ... and then stores n plus the chunk's length as the count, and returns.
FwdStore ==
  /\ fwd.pc = "store"
  /\ bw' = [bw EXCEPT !.n = held.w + 1]
  /\ held' = [held EXCEPT !.w = 0]
  /\ swritten' = Append(swritten, fwd.buf)
  /\ fwd' = [pc |-> "check", buf |-> 0]
  /\ UNCHANGED <<upstream, nread, ctxDone, bodyClosed, flusherOk, serve, loop,
                 sflushed, flushesAfterCancel, wire, authVars, modVars, cacheVars, proxyVars>>

\* The forwarder's ctx.Err() check after a write.
FwdCheck ==
  /\ fwd.pc = "check"
  /\ fwd' = [pc |-> IF ctxDone THEN "done" ELSE "read", buf |-> 0]
  /\ UNCHANGED <<upstream, nread, ctxDone, bodyClosed, flusherOk, serve, loop,
                 swritten, sflushed, flushesAfterCancel, wireVars, authVars, modVars, cacheVars, proxyVars>>

\* The flush loop's select: the 100 ms timer made on entry fires.  The select
\* takes the first case that becomes ready: the timer only while the context
\* is not done.
TimerFiresAnyway ==
  /\ loop = "select"
  /\ loop' = "flush"
  /\ UNCHANGED <<upstream, nread, ctxDone, bodyClosed, flusherOk, serve, fwd,
                 swritten, sflushed, flushesAfterCancel, wireVars, authVars, modVars, cacheVars, proxyVars>>

TimerFires ==
  /\ loop = "select"
  /\ ~ctxDone
  /\ loop' = "flush"
  /\ UNCHANGED <<upstream, nread, ctxDone, bodyClosed, flusherOk, serve, fwd,
                 swritten, sflushed, flushesAfterCancel, wireVars, authVars, modVars, cacheVars, proxyVars>>

\* flusher.Flush(), which is bufio.Writer.Flush on the same writer: it sends
\* the buffer up to the count n ...  With an error held it sends nothing.
LoopFlushSends ==
  /\ loop = "flush"
  /\ held' = [held EXCEPT !.f = bw.n]
  /\ wire' = IF bw.err THEN wire ELSE wire \o Buffered(bw)
  /\ loop' = "flushing"
  /\ UNCHANGED <<upstream, nread, ctxDone, bodyClosed, flusherOk, serve, fwd,
                 swritten, sflushed, flushesAfterCancel, bw, authVars, modVars, cacheVars, proxyVars>>

\* ... and then resets the count to 0; or, when it sees a count that is no
\* longer the one it sent, keeps what is beyond it and holds io.ErrShortWrite.
\* A Write that came in between is seen or not: the two goroutines share the
\* writer with no synchronisation.  What lies in the buffer beyond the reach
\* of every count is dropped from the model.
LoopFlush ==
  /\ loop = "flushing"
  /\ \/ bw' = [bw EXCEPT !.n = 0,
                         !.buf = IF fwd.pc = "store" THEN bw.buf ELSE <<>>]
     \/ /\ ~bw.err
        /\ bw.n > held.f
        /\ bw' = [buf |-> SubSeq(bw.buf, held.f + 1, bw.n), n |-> bw.n - held.f, err |-> TRUE]
  /\ held' = [held EXCEPT !.f = 0]
  /\ sflushed' = Len(swritten)
  /\ flushesAfterCancel' =
       IF ctxDone /\ flushesAfterCancel < MaxFlushCount
       THEN flushesAfterCancel + 1 ELSE flushesAfterCancel
  /\ loop' = "select"
  /\ UNCHANGED <<upstream, nread, ctxDone, bodyClosed, flusherOk, serve, fwd,
                 swritten, wire, authVars, modVars, cacheVars, proxyVars>>

\* The flush loop's select: <-ctx.Done(), Stream returns.
LoopDone ==
  /\ loop = "select"
  /\ ctxDone
  /\ loop' = "returned"
  /\ UNCHANGED <<upstream, nread, ctxDone, bodyClosed, flusherOk, serve, fwd,
                 swritten, sflushed, flushesAfterCancel, wireVars, authVars, modVars, cacheVars, proxyVars>>

\* Serve returns after Stream: the deferred resp.Body.Close() runs, and the
\* server flushes what the writer has buffered.
ServeReturns ==
  /\ serve = "stream"
  /\ loop = "returned"
  /\ serve' = "done"
  /\ bodyClosed' = TRUE
  /\ wire' = IF bw.err THEN wire ELSE wire \o Buffered(bw)
  /\ bw' = [bw EXCEPT !.n = 0, !.buf = IF fwd.pc = "store" THEN bw.buf ELSE <<>>]
  /\ UNCHANGED <<upstream, nread, ctxDone, flusherOk, fwd, loop,
                 swritten, sflushed, flushesAfterCancel, held, authVars, modVars, cacheVars, proxyVars>>

NextStream ==
  \/ UpstreamSends
  \/ UpstreamCloses
  \/ Cancel
  \/ \E ok \in BOOLEAN : ServeNewRequest(ok)
  \/ \E f \in Failures \cup {<<>>} : ServeModifier(f)
  \/ ServeDo
  \/ \E f \in Failures : ServeDoFails(f)
  \/ \E st \in UpstreamStatuses, h \in UpstreamHeaders : ServeResponse(st, h)
  \/ ServeCopyHeaders
  \/ ServeWriteHeader
  \/ CopyChunk
  \/ CopyEnds
  \/ StreamStart
  \/ FwdRead
  \/ FwdWrite
  \/ FwdStore
  \/ FwdCheck
  \/ TimerFires
  \/ LoopFlushSends
  \/ LoopFlush
  \/ LoopDone
  \/ ServeReturns

\* What the runtime guarantees: a goroutine that can take a step takes it,
\* and a timer fires.  Nothing makes the upstream send or end, or the client
\* disconnect.
FairStream ==
  /\ WF_vars(ServeCopyHeaders)
  /\ WF_vars(ServeWriteHeader)
  /\ WF_vars(StreamStart)
  /\ WF_vars(FwdRead)
  /\ WF_vars(FwdWrite)
  /\ WF_vars(FwdStore)
  /\ WF_vars(LoopFlushSends)
  /\ WF_vars(FwdCheck)
  /\ WF_vars(TimerFires)
  /\ WF_vars(LoopFlush)
  /\ WF_vars(LoopDone)
  /\ WF_vars(ServeReturns)
  /\ WF_vars(CopyChunk)
  /\ WF_vars(CopyEnds)

(***************************************************************************)
(* Specifications.                                                         *)
(***************************************************************************)
InitAuthOnly == InitAuth /\ IdleModify /\ IdleCache /\ IdleStream
SpecAuth == InitAuthOnly /\ [][NextAuth]_vars
SpecSession == InitAuthOnly /\ [][NextSession]_vars

SpecUserInfo == InitAuthOnly /\ [][NextUserInfo]_vars

InitModifyOnly == InitModify /\ InitAuth /\ IdleCache /\ IdleStream
SpecModify == InitModifyOnly /\ [][NextModify]_vars

InitCacheOnly == InitCache /\ InitAuth /\ IdleModify /\ IdleStream
SpecCache == InitCacheOnly /\ [][NextCache]_vars
SpecKey == InitCacheOnly /\ [][NextKey]_vars
SpecCancel == InitCacheOnly /\ [][NextCancel]_vars
SpecReplay == InitCacheOnly /\ [][NextReplay]_vars

InitStreamOnly == InitStream /\ InitAuth /\ IdleModify /\ IdleCache
SpecStream == InitStreamOnly /\ [][NextStream]_vars
SpecStreamFair == SpecStream /\ FairStream

(***************************************************************************)
(* Properties of the session handlers.                                     *)
(***************************************************************************)
StateCookieSent == last.jar.state
\* The redirect target stored in the state cookie the request carried.
StoredTarget == Val(StateCookieSent).RedirectUri
StateMatches == IsSome(StateCookieSent) /\ last.state = Val(StateCookieSent)
CallbackSucceeded ==
  /\ resp.status = 307
  /\ resp.auth # Keep /\ resp.auth # Clear
  /\ resp.redirect.to = "local"
\* The host component of a target as a URI reference (url.Parse): the authority
\* after "//", with or without a scheme before it.
HostComponent(raw) == IF Parse(raw).err THEN <<>> ELSE Parse(raw).Host
\* The target is a well-formed URI reference with no host component.
EmptyHost(raw) == ~Parse(raw).err /\ Parse(raw).Host = <<>>
\* The target is one the handlers redirect to: a request URI with an empty Host.
AcceptedTarget(raw) == ~ParseRequestURI(raw).err /\ ParseRequestURI(raw).Host = <<>>

\* C1 as stated: after a Login, a Callback with no error parameter, a stored
\* target with an empty host and a successful exchange succeeds iff its state
\* parameter equals the state cookie; a missing cookie or a mismatch yields 400.
C1_Claim ==
  (/\ last.op = "Callback" /\ origin = "login"
   /\ last.error = "" /\ last.exchangeOk
   /\ (IsSome(StateCookieSent) => EmptyHost(StoredTarget)))
  => /\ CallbackSucceeded <=> StateMatches
     /\ ~StateMatches => resp.status = 400

\* C1 amended: the same, for a stored target that url.ParseRequestURI accepts
\* with an empty Host (a target such as "dashboard", with no leading "/", has no
\* host either and is answered 400 although the state matches).
C1_Thm ==
  (/\ last.op = "Callback" /\ origin = "login"
   /\ last.error = "" /\ last.exchangeOk
   /\ (IsSome(StateCookieSent) => AcceptedTarget(StoredTarget)))
  => /\ CallbackSucceeded <=> StateMatches
     /\ ~StateMatches => resp.status = 400

C1_Witness ==
  /\ last.op = "Callback" /\ origin = "login"
  /\ last.error = "" /\ last.exchangeOk
  /\ StateMatches /\ AcceptedTarget(StoredTarget)
  /\ CallbackSucceeded /\ IsSome(jar.auth) /\ ~IsSome(jar.state)

\* The redirect target of the last request: the redirect_uri parameter of Login
\* and Logout ("/" when empty), the target decoded from the state cookie of Callback.
RequestTarget ==
  IF last.op \in {"Login", "Logout"}
  THEN Some(IF last.redirect_uri = <<>> THEN <<"/">> ELSE last.redirect_uri)
  ELSE IF last.op = "Callback" /\ IsSome(StateCookieSent) /\ Val(StateCookieSent).kind = "enc"
  THEN Some(StoredTarget)
  ELSE None

\* C2: a redirect target with a non-empty host component is rejected with 400
\* and no redirect, by Login, by Callback and by Logout.
C2_Claim ==
  (IsSome(RequestTarget) /\ HostComponent(Val(RequestTarget)) # <<>>)
  => (resp.status = 400 /\ resp.redirect.to = "none")

\* Callback fails at some step: an error parameter, no state cookie, a mismatch,
\* an undecodable state, an unparsable target, a target with a host, or a failed
\* exchange.
CallbackFailure ==
  \/ last.error # ""
  \/ ~IsSome(StateCookieSent)
  \/ last.state # Val(StateCookieSent)
  \/ Val(StateCookieSent).kind # "enc"
  \/ ParseRequestURI(StoredTarget).err
  \/ ParseRequestURI(StoredTarget).Host # <<>>
  \/ ~last.exchangeOk

\* C3: a Callback that fails at any step answers 400 and neither sets nor clears
\* a cookie: the browser's session cookie and state cookie are unchanged.
C3_Thm ==
  (last.op = "Callback" /\ CallbackFailure)
  => /\ resp.status = 400
     /\ resp.state = Keep /\ resp.auth = Keep
     /\ jar = last.jar

\* A failed exchange, after every earlier step passed, with both cookies held.
C3_Witness ==
  /\ last.op = "Callback" /\ last.error = "" /\ StateMatches
  /\ Val(StateCookieSent).kind = "enc" /\ AcceptedTarget(StoredTarget)
  /\ ~last.exchangeOk
  /\ resp.status = 400 /\ IsSome(jar.auth) /\ IsSome(jar.state)

(***************************************************************************)
(* Properties of ModifyHeader.                                             *)
(***************************************************************************)
SessionCookieFound == IsSome(RequestCookie(mtrace[1], "auth"))

\* C9: applying ModifyHeader twice leaves the same Authorization header values
\* as applying it once.
C9_Thm ==
  Len(mtrace) >= 3 => mtrace[3].Authorization = mtrace[2].Authorization

\* Two applications to a request with a session cookie and an Authorization
\* header of its own; the first application added a value.
C9_Witness ==
  /\ Len(mtrace) = 3 /\ SessionCookieFound
  /\ mtrace[1].Authorization # <<>>
  /\ Len(mtrace[2].Authorization) = Len(mtrace[1].Authorization) + 1
  /\ mtrace[3].Authorization = mtrace[2].Authorization

\* C10 as stated: after ModifyHeader the request carries no Cookie header,
\* with or without a session cookie among its cookies.
C10_Claim ==
  Len(mtrace) >= 2 => mtrace[2].Cookie = <<>>

\* C10 amended: when ModifyHeader finds a session cookie the request carries no
\* Cookie header afterwards; when it finds none the Cookie header is left as it
\* was, other cookies included.
C10_Thm ==
  Len(mtrace) >= 2 =>
    /\ SessionCookieFound => mtrace[2].Cookie = <<>>
    /\ ~SessionCookieFound => mtrace[2].Cookie = mtrace[1].Cookie

\* A session cookie sent along with another cookie: both are stripped.
C10_Witness ==
  /\ Len(mtrace) >= 2 /\ SessionCookieFound
  /\ \E i \in 1..Len(mtrace[1].Cookie) : mtrace[1].Cookie[i].Name = "other"
  /\ mtrace[2].Cookie = <<>>

(***************************************************************************)
(* The cache layer's claims.                                               *)
(***************************************************************************)
CStarted(r) == creq[r].pc # "idle"
CDone(r) == creq[r].pc = "done"
\* Two requests overlap in time: one was in progress when the other arrived.
Concurrent(r1, r2) == r1 \in creq[r2].conc \/ r2 \in creq[r1].conc
SameKey(r1, r2) == CStarted(r1) /\ CStarted(r2) /\ creq[r1].key = creq[r2].key
\* The wrapped handler ran for r and reported a failure / a success.
HandlerFailed(r) == creq[r].hstatus >= 400
HandlerSucceeded(r) == creq[r].hstatus \in 1..399
\* The multiple of d nearest to t, the halfway value going up.
NearestMultiple(t, d) == ((2 * t + d) \div (2 * d)) * d

\* C4 as stated: of two concurrent requests with the same cache key at
\* most one runs the wrapped handler, and both receive the same answer.
C4_Claim ==
  \A r1 \in Reqs, r2 \in Reqs :
    (r1 # r2 /\ Concurrent(r1, r2) /\ SameKey(r1, r2))
      => /\ ~(creq[r1].invoked /\ creq[r2].invoked)
         /\ (CDone(r1) /\ CDone(r2)) => creq[r1].body = creq[r2].body

\* No load has pushed the cache over its ceiling: nothing was evicted.
NothingEvicted == \A p \in Reqs : Size(creq[p].hbody) <= cacheBytes

\* C4 as the code has it: for a key the wrapped handler never runs twice at
\* the same time and, while nothing is evicted, succeeds at most once; a
\* request that finds a load in flight waits for it, does not run the handler
\* and receives that load's outcome; while nothing is evicted, all 200
\* answers for a key carry the same bytes.
C4_Thm ==
  \A r1 \in Reqs, r2 \in Reqs :
    (r1 # r2 /\ SameKey(r1, r2))
      => /\ ~(creq[r1].pc = "handler" /\ creq[r2].pc = "handler")
         /\ NothingEvicted => ~(HandlerSucceeded(r1) /\ HandlerSucceeded(r2))
         /\ creq[r2].joined = r1
              => /\ ~creq[r2].invoked
                 /\ Concurrent(r1, r2)
                 /\ creq[r2].pc = "wait" => creq[r1].pc \in {"fn", "handler", "fnret"}
                 /\ creq[r2].pc \in {"got", "done"} => creq[r2].out = creq[r1].out
         /\ (NothingEvicted /\ CDone(r1) /\ CDone(r2)
               /\ creq[r1].status = 200 /\ creq[r2].status = 200)
              => creq[r1].body = creq[r2].body

\* Of two concurrent requests with the same key one ran the wrapped handler
\* and the other waited for that load; both were answered 200.
C4_Witness ==
  \E r1 \in Reqs, r2 \in Reqs :
    /\ r1 # r2 /\ Concurrent(r1, r2) /\ SameKey(r1, r2)
    /\ CDone(r1) /\ CDone(r2)
    /\ creq[r2].joined = r1 /\ creq[r1].invoked /\ creq[r2].status = 200

\* C5: a load whose handler reports a status >= 400 stores nothing, the
\* client is answered with that status, a failure answered to a request
\* always comes from a handler run during that request, and a request that
\* arrives after a failed request for its key finds the handler run again.
C5_Thm ==
  /\ \A e \in cache : \E q \in Reqs :
       creq[q].key = e.key /\ HandlerSucceeded(q) /\ creq[q].hbody = e.data
  /\ \A r \in Reqs :
       /\ HandlerFailed(r)
            => /\ creq[r].out = [err |-> creq[r].hstatus, data |-> ""]
               /\ CDone(r) => creq[r].status = creq[r].hstatus
       /\ (CDone(r) /\ creq[r].status # 200)
            => /\ creq[r].src \in Reqs \ creq[r].before
               /\ creq[creq[r].src].key = creq[r].key
               /\ creq[creq[r].src].hstatus = creq[r].status
       /\ \A q \in creq[r].before :
            (CDone(r) /\ creq[q].key = creq[r].key /\ HandlerFailed(q))
              => /\ creq[r].src # q
                 /\ \E p \in Reqs \ {q} : creq[p].key = creq[r].key /\ creq[p].invoked

\* A request failed with the handler's status; the next request for the key
\* ran the handler again and was answered 200.
C5_Witness ==
  \E q \in Reqs, r \in Reqs :
    /\ q \in creq[r].before /\ creq[q].key = creq[r].key
    /\ HandlerFailed(q) /\ creq[q].status = creq[q].hstatus
    /\ CDone(r) /\ creq[r].invoked /\ creq[r].status = 200
    /\ ~CacheHit(creq[q].key) \/ CacheData(creq[q].key) = creq[r].hbody

RelayRunning == loop \in {"select", "flush", "flushing"}
RelayStopped == fwd.pc = "done" /\ loop = "returned"
UpstreamEnded == upstream.eof /\ nread = upstream.sent

\* C7: once the inbound request's context is cancelled while the relay is
\* running, the forwarder and the flush loop both eventually stop, and the
\* flush loop flushes at most once more after the cancellation.
C7_Thm ==
  /\ [](flushesAfterCancel <= 1)
  /\ (RelayRunning /\ ctxDone) ~> RelayStopped

\* The relay was cancelled in the middle, flushed once more and stopped.
C7_Witness ==
  /\ ctxDone
  /\ RelayStopped
  /\ flushesAfterCancel = 1
  /\ Len(swritten) > 0

\* C8 as stated: once the upstream has ended the body of a running relay,
\* Serve completes, unless the client disconnects first.
C8_Claim == (RelayRunning /\ UpstreamEnded) ~> (serve = "done" \/ ctxDone)


(***************************************************************************)
(* ModifyHeader on a request without a session cookie.                     *)
(***************************************************************************)
\* The request's Cookie header names the session cookie.
HoldsSessionCookie ==
  \E i \in 1..Len(mtrace[1].Cookie) : mtrace[1].Cookie[i].Name = "auth"

\* C11: when the request holds no session cookie (none that Request.Cookie
\* finds), ModifyHeader leaves every header as it was, Cookie and
\* Authorization included, and returns no error.
C11_Thm ==
  (Len(mtrace) >= 2 /\ (~HoldsSessionCookie \/ ~SessionCookieFound))
    => /\ mtrace[2] = mtrace[1]
       /\ ModifyHeaderError(mtrace[1]) = "nil"

\* A request with another cookie and an Authorization header of its own, and
\* no session cookie, went through ModifyHeader unchanged.
C11_Witness ==
  /\ Len(mtrace) >= 2 /\ ~HoldsSessionCookie
  /\ mtrace[1].Cookie # <<>> /\ mtrace[1].Authorization # <<>>
  /\ mtrace[2] = mtrace[1]


(***************************************************************************)
(* The proxy's claims.                                                     *)
(***************************************************************************)
\* The status an error carries: that of the *statusError reached from it
\* through wrappers only, 0 when there is none.
CarriedStatus(e) ==
  LET at == {i \in 1..Len(e) :
               e[i].kind = "status" /\ \A j \in 1..(i - 1) : e[j].kind = "wrap"}
  IN IF at = {} THEN 0 ELSE e[CHOOSE i \in at : TRUE].code
ServeFailed == serve = "done" /\ perr # NoError

\* C12: when building or executing the outbound request fails with an error
\* that carries a status, the proxy answers with that status; it answers 500
\* for every other error.
C12_Thm ==
  ServeFailed
    => sstatus.code = IF CarriedStatus(perr.cause) # 0
                      THEN CarriedStatus(perr.cause) ELSE 500

\* A modifier failed with a wrapped status error and the proxy answered 503.
C12_Witness ==
  /\ ServeFailed /\ ran # <<>> /\ outbound = 0
  /\ perr.cause = <<WrapLayer, StatusLayer(503)>>
  /\ sstatus.code = 503


\* The modifiers that have run are the first ones configured, in order.
RanInOrder ==
  /\ Len(ran) <= nmods
  /\ \A i \in 1..Len(ran) : ran[i].mod = i
ModifierFailed == \E i \in 1..Len(ran) : ran[i].err # <<>>
ConstructionFailed == serve = "done" /\ outbound = 0 /\ ran = <<>> /\ perr # NoError

UpstreamAnswered == uresp # NoUpstreamResponse

\* C14: after a successful exchange the upstream's headers are all copied
\* before the status is written, and the status is written before any body
\* byte, on the bulk-copy path and on the streaming path.
C14_Thm ==
  /\ (UpstreamAnswered /\ sstatus # NoStatus)
       => /\ sstatus.code = uresp.status
          /\ uresp.header \subseteq sstatus.header
  /\ (UpstreamAnswered /\ sheader # {}) => uresp.header \subseteq sheader
  /\ (serve \in {"stream", "copy"} \/ fwd.pc # "none" \/ loop # "none")
       => (UpstreamAnswered /\ sstatus # NoStatus)
  /\ (swritten # <<>> /\ perr = NoError) => (UpstreamAnswered /\ sstatus # NoStatus)
  /\ ~UpstreamAnswered => (sheader = {} /\ sstatus.header = {})

\* An event stream with a second header: the status went out with both
\* headers, and a body chunk has been written since.
C14_Witness ==
  /\ UpstreamAnswered /\ <<"X-Up", "1">> \in uresp.header
  /\ sstatus.header = uresp.header /\ sstatus.code = 200
  /\ fwd.pc # "none" /\ swritten # <<>>


(***************************************************************************)
(* The session's claims.                                                   *)
(***************************************************************************)
HoldsSession == IsSome(jar.auth)
LogoutSucceeded == last.op = "Logout" /\ resp.status = 307

\* C15 as stated: from a successful Logout on, the browser holds no session
\* cookie until a new Login has happened and a Callback has succeeded.
C15_Claim == flow.logout = "logout" => ~HoldsSession

\* C15 as the code has it: a successful Logout leaves the browser without a
\* session cookie and with its state cookie as it was; without a session
\* cookie UserInfo answers 401 and a proxied request gets no Authorization
\* header; and only a successful Callback gives the browser a session cookie.
C15_Thm ==
  /\ [](LogoutSucceeded => (~HoldsSession /\ jar.state = last.jar.state))
  /\ []((last.op = "UserInfo" /\ ~IsSome(last.jar.auth)) => resp.status = 401)
  /\ []((last.op = "Proxy" /\ ~IsSome(last.jar.auth))
          => (IsSome(pheader) /\ Val(pheader).Authorization = <<>>))
  /\ [][(~HoldsSession /\ HoldsSession')
          => (last'.op = "Callback" /\ resp'.status = 307)]_vars

\* A browser that was logged in and holds a state cookie logged out, and its
\* proxied request went out without an Authorization header.
C15_Witness ==
  /\ flow.logout = "logout" /\ IsSome(flow.consumed)
  /\ last.op = "Proxy" /\ ~HoldsSession /\ IsSome(jar.state)
  /\ IsSome(pheader) /\ Val(pheader).Authorization = <<>>

\* The last request is a Callback presenting the state value of the last
\* successful Callback, with no successful Login since.
ReplayedState == IsSome(flow.consumed) /\ last.state = Val(flow.consumed)

\* C16 as stated: once a Callback has succeeded, a further Callback presenting
\* the same state value is answered 400 unless a Login succeeded in between.
C16_Claim ==
  [][(last'.op = "Callback" /\ IsSome(flow.consumed) /\ last'.state = Val(flow.consumed))
     => resp'.status = 400]_vars

\* C16 amended: a successful Callback clears the state cookie, so the browser
\* holds none afterwards; a further Callback presenting the same state value
\* with no state cookie is answered 400; the server keeps no record of used
\* values, and such a Callback is answered otherwise only when the client has
\* itself put a state cookie of that value back into the request.
C16_Thm ==
  /\ [](CallbackSucceeded => (resp.state = Clear /\ ~IsSome(jar.state)))
  /\ []((last.op = "Callback" /\ ~IsSome(StateCookieSent)) => resp.status = 400)
  /\ [][(last'.op = "Callback" /\ IsSome(flow.consumed) /\ last'.state = Val(flow.consumed)
          /\ resp'.status # 400)
         => (origin = "client" /\ jar.state = flow.consumed)]_vars

\* A replay by a browser that dropped the cleared cookie, answered 400.
C16_Witness ==
  /\ last.op = "Callback" /\ ReplayedState /\ last.error = "" /\ last.exchangeOk
  /\ ~IsSome(StateCookieSent) /\ resp.status = 400

(***************************************************************************)
(* The choice of the body relay.                                           *)
(***************************************************************************)
ContentType == HeaderGet(uresp.header, "Content-Type")
StreamEntered == loop # "none"
ForwarderStarted == fwd.pc # "none"
\* The chunks 1..n in order.
FirstChunks(n) == [i \in 1..n |-> i]

\* C17 as stated: for a text/event-stream response the forwarder and the
\* flush loop are used; for any other response none of them is started.
C17_Claim ==
  /\ (StreamEntered /\ ContentType = "text/event-stream")
        => (ForwarderStarted /\ swritten = FirstChunks(Len(swritten)))
  /\ (uresp.status # 0 /\ ContentType # "text/event-stream")
        => (~StreamEntered /\ ~ForwarderStarted)

\* C17 amended: Stream is entered iff the Content-Type header is exactly
\* "text/event-stream"; there the forwarder and the flush loop run only when
\* the response writer is an http.Flusher, and otherwise the body is the text
\* "Streaming not supported" and nothing of the upstream body is relayed.
\* Every other response, "text/event-stream; charset=utf-8" included, is
\* copied in one pass with no forwarder and no flush loop, to the end of the
\* body when the request is not cancelled.
C17_Thm ==
  /\ (serve \in {"stream", "copy"} \/ StreamEntered) => uresp.status # 0
  /\ StreamEntered => ContentType = "text/event-stream"
  /\ serve = "copy" => ContentType # "text/event-stream"
  /\ (uresp.status # 0 /\ ContentType # "text/event-stream")
        => (/\ ~StreamEntered /\ ~ForwarderStarted /\ sflushed = 0
            /\ swritten = FirstChunks(nread)
            /\ (serve = "done" /\ ~ctxDone) => (upstream.eof /\ nread = upstream.sent))
  /\ (StreamEntered /\ flusherOk)
        => (ForwarderStarted /\ swritten = FirstChunks(Len(swritten)))
  /\ (StreamEntered /\ ~flusherOk)
        => (~ForwarderStarted /\ loop = "returned" /\ sflushed = 0 /\ nread = 0
            /\ swritten = <<NotSupported>>)

\* An event stream handed to a writer that is no http.Flusher, the upstream
\* having sent a chunk: nothing is relayed.
C17_Witness ==
  /\ ContentType = "text/event-stream" /\ ~flusherOk /\ serve = "done"
  /\ upstream.sent > 0 /\ swritten = <<NotSupported>> /\ ~ForwarderStarted

(***************************************************************************)
(* UserInfo.                                                               *)
(***************************************************************************)
SessionCookieSent == last.jar.auth
SegmentsSent == Val(SessionCookieSent)[2]
\* The text the second segment is the base64 of, if it is base64 at all.
SecondSegment == StdDecodeString(Pad(SegmentsSent[2]))
\* What a JSON text denotes.
JSONValue(text) ==
  CASE text \in {"{}", "{}\n"} -> "object, empty"
    [] text \in {"{\"b\":1,\"a\":2}", "{\"a\":2,\"b\":1}\n"} -> "object, a 2, b 1"
    [] text \in {"null", "null\n"} -> "null"
    [] text = "[1]" -> "array, 1"
    [] OTHER -> "no JSON"
UserInfoKeepsCookies == resp.state = Keep /\ resp.auth = Keep /\ jar = last.jar

\* C18 as stated: UserInfo answers 401 when the session cookie is missing,
\* has fewer than two segments, or its second segment is not the base64 of
\* JSON; otherwise the body is the decoded second segment; no cookie is set
\* or cleared.
C18_Claim ==
  last.op = "UserInfo" =>
    /\ UserInfoKeepsCookies
    /\ IF \/ ~IsSome(SessionCookieSent)
          \/ Len(SegmentsSent) < 2
          \/ SecondSegment.err
          \/ JSONValue(SecondSegment.text) = "no JSON"
       THEN resp.status = 401
       ELSE resp.status = 200 /\ JSONValue(resp.body) = JSONValue(SecondSegment.text)

\* C18 amended: 401 also when the second segment is the base64 of JSON that
\* is neither an object nor null; base64 is the standard alphabet, after
\* padding with "=" to a multiple of four; the body is the object encoded
\* again (the same JSON value, keys sorted, a newline at the end), and null
\* for null.
C18_Thm ==
  last.op = "UserInfo" =>
    /\ UserInfoKeepsCookies
    /\ IF \/ ~IsSome(SessionCookieSent)
          \/ Len(SegmentsSent) < 2
          \/ SecondSegment.err
          \/ JSONValue(SecondSegment.text) \notin {"object, empty", "object, a 2, b 1", "null"}
       THEN resp.status = 401 /\ resp.body = ""
       ELSE resp.status = 200 /\ JSONValue(resp.body) = JSONValue(SecondSegment.text)

\* A three-segment token whose second segment is an object and whose third is
\* not base64: the object is the body.
C18_Witness ==
  /\ last.op = "UserInfo" /\ IsSome(SessionCookieSent) /\ Len(SegmentsSent) = 3
  /\ SegmentsSent[2] = "eyJiIjoxLCJhIjoyfQ" /\ SegmentsSent[3] = "%"
  /\ resp.status = 200 /\ resp.body = "{\"a\":2,\"b\":1}\n"
  /\ jar.auth = SessionCookieSent

(***************************************************************************)
(* The session after a failed Callback.                                    *)
(***************************************************************************)
\* The Callback failed for a reason C19 names: an error parameter, a missing
\* or invalid state, or a stored target with a host.
RejectedCallback ==
  /\ last.op = "Callback"
  /\ \/ last.error # ""
     \/ ~IsSome(StateCookieSent)
     \/ last.state # Val(StateCookieSent)
     \/ Val(StateCookieSent).kind # "enc"
     \/ (~ParseRequestURI(StoredTarget).err /\ ParseRequestURI(StoredTarget).Host # <<>>)

\* C19 as stated: after such a Callback the browser holds no session cookie,
\* whatever it held before.
C19_Claim == RejectedCallback => ~IsSome(jar.auth)

\* C19 amended: such a Callback answers 400 and leaves the session as it was:
\* a browser with no session cookie still has none (it is not advanced to
\* authenticated), and a browser that held a session cookie still holds it.
C19_Thm ==
  RejectedCallback =>
    /\ resp.status = 400 /\ resp.auth = Keep
    /\ jar.auth = last.jar.auth
    /\ ~IsSome(last.jar.auth) => ~IsSome(jar.auth)

\* An authenticated browser's Callback is rejected for its error parameter.
C19_Witness ==
  /\ RejectedCallback /\ last.error # "" /\ IsSome(last.jar.auth)
  /\ resp.status = 400 /\ IsSome(jar.auth)

(***************************************************************************)
(* What the client receives of an event stream.                            *)
(***************************************************************************)
EventStreamRelay == StreamEntered /\ flusherOk

\* C20: in an event-stream relay what has been sent to the client is at every
\* moment a prefix of what has been read from the upstream body: nothing is
\* duplicated, dropped in the middle or reordered, whatever the flushes do.
C20_Claim ==
  EventStreamRelay => (Len(wire) <= nread /\ wire = FirstChunks(Len(wire)))

(***************************************************************************)
(* The state a Login hands out.                                            *)
(***************************************************************************)
LoginSucceeded == last.op = "Login" /\ resp.status = 307
\* A base64 text reads the same from the authorization URL and from the cookie.
SameOnBothWays == \A text \in Base64Texts : EchoedState(text) = text /\ StoredState(text) = text

\* C27: a successful Login sends the identity provider the very state value
\* it stores in the state cookie, and a callback echoing that value passes
\* the comparison of decodeState.
C27_Thm ==
  LoginSucceeded =>
    /\ resp.redirect.to = "idp"
    /\ resp.state = Set(resp.redirect.state)
    /\ jar.state = Some(resp.redirect.state)
    /\ ~decodeState(jar.state, resp.redirect.state).err
    /\ SameOnBothWays

\* A Login with a redirect target, made after the clock has moved.
C27_Witness ==
  /\ LoginSucceeded /\ last.redirect_uri # <<>> /\ now > 0
  /\ jar.state = Some(EncText(last.redirect_uri, now))
  /\ resp.redirect.state = EncText(last.redirect_uri, now)

(***************************************************************************)
(* The Authorization header of the outbound request.                       *)
(***************************************************************************)
\* C26: when the inbound request holds a session cookie, the outbound
\* request carries exactly one Authorization value, the cookie's value, even
\* when the inbound request came with an Authorization header of its own.
C26_Claim ==
  (Len(mtrace) >= 2 /\ IsSome(RequestCookie(mtrace[1], "auth")))
    => mtrace[2].Authorization = <<Val(RequestCookie(mtrace[1], "auth")).Value>>

(***************************************************************************)
(* The forwarder after Serve has returned.                                 *)
(***************************************************************************)
\* C24: once Stream has returned and Serve has closed the upstream body and
\* finished the response, the forwarder writes nothing more to the response
\* writer and reads nothing more from the upstream body.
C24_Claim ==
  [][(serve = "done" /\ ForwarderStarted)
       => (swritten' = swritten /\ bw' = bw /\ nread' = nread)]_vars

(***************************************************************************)
(* The windows of the cache key.                                           *)
(***************************************************************************)
\* The instants that get the key of request r, for r's url.
Window(r) ==
  {t \in 0..(MaxInstant + ttl) : CacheKey(t, ttl, creq[r].url) = creq[r].key}
Contiguous(S) == \A a \in S, b \in S : \A t \in a..b : t \in S

\* C22: for a url every instant has one key, and the instants of a key are
\* one contiguous interval of length TTL; two keys' intervals do not overlap.
\* (The interval of the key at the origin of the model's clock is cut off by
\* the origin, and is left out of the length.)
C22_Thm ==
  \A r \in Reqs :
    CStarted(r) =>
      /\ creq[r].t \in Window(r)
      /\ Contiguous(Window(r))
      /\ creq[r].key[1] >= ttl => Cardinality(Window(r)) = ttl
      /\ \A q \in Reqs :
           (CStarted(q) /\ creq[q].url = creq[r].url)
             => (Window(q) = Window(r) \/ Window(q) \cap Window(r) = {})

\* Two requests for a url in adjacent windows, a TTL of two or more.
C22_Witness ==
  \E r \in Reqs, q \in Reqs :
    /\ CStarted(r) /\ CStarted(q) /\ creq[q].url = creq[r].url /\ ttl >= 2
    /\ creq[q].t = creq[r].t + 1 /\ creq[q].key # creq[r].key
    /\ creq[r].key[1] >= ttl /\ Cardinality(Window(r)) = ttl /\ Cardinality(Window(q)) = ttl

(***************************************************************************)
(* A client that disconnects during a shared load.                         *)
(***************************************************************************)
\* The client of r disconnected while r led a load in flight.
GoneWhileLoading(r) == r \in cgone /\ creq[r].goneAt \in {"fn", "handler"}
Joined(q, r) == q # r /\ creq[q].joined = r
\* What ServeHTTP answers for an outcome of Getter.Get.
Answered(q, out) ==
  IF out.err # 0
  THEN creq[q].status = serveError(out.err).status /\ creq[q].body = serveError(out.err).body
  ELSE creq[q].status = 200 /\ creq[q].body = out.data

\* C21: when the client of the request that leads a load disconnects, the
\* load is not aborted: the wrapped handler runs with a context that is not
\* done, its own answer is the load's outcome, and every request that joined
\* the load receives that outcome and answers with it.
C21_Thm ==
  \A r \in Reqs :
    GoneWhileLoading(r) =>
      /\ creq[r].pc \in {"fnret", "got", "done"} /\ creq[r].invoked
           => /\ ~creq[r].aborted
              /\ creq[r].out = WriteCache([status |-> creq[r].hstatus, body |-> creq[r].hbody])
              /\ creq[r].hbody \in Bodies
      /\ \A q \in Reqs :
           Joined(q, r) /\ creq[r].pc \in {"got", "done"}
             => /\ creq[q].pc \in {"got", "done"}
                /\ creq[q].out = creq[r].out
                /\ creq[q].pc = "done" => Answered(q, creq[q].out)

\* A request joined a load whose leader's client then disconnected while the
\* handler ran, and was answered 200 with the handler's bytes.
C21_Witness ==
  \E r \in Reqs, q \in Reqs :
    /\ creq[r].goneAt = "handler" /\ r \in cgone /\ q \notin cgone
    /\ Joined(q, r) /\ creq[q].pc = "done"
    /\ creq[q].status = 200 /\ creq[q].body = creq[r].hbody /\ creq[r].hstatus = 200

(***************************************************************************)
(* The credentials behind the bytes of the cache.                          *)
(***************************************************************************)
\* Request q was answered 200 with the bytes that the wrapped handler
\* returned for the request made from r's load of the same key.
LoadedFor(r, q) ==
  /\ creq[r].invoked /\ creq[r].hstatus = 200 /\ creq[r].key = creq[q].key
  /\ creq[q].pc = "done" /\ creq[q].status = 200 /\ creq[q].body = creq[r].hbody
  /\ creq[q].src \in {0, r}

\* C25: a requester is answered only with bytes that the wrapped handler
\* loaded under that requester's own credentials: the headers of the request
\* the handler was given are the headers of the request that is answered.
C25_Claim ==
  \A q \in Reqs, r \in Reqs :
    LoadedFor(r, q) => createRequest(r).Header = InboundHeaders(q)

(***************************************************************************)
(* The replay of a stored entry, and the end of its time bucket.           *)
(***************************************************************************)
Bucket(r) == NearestMultiple(creq[r].t, ttl)
\* Request r ended before q arrived, with a successful load for q's url.
StoredBefore(r, q) ==
  /\ r \in creq[q].before /\ creq[r].url = creq[q].url
  /\ creq[r].invoked /\ HandlerSucceeded(r)
\* No earlier arrival is in q's bucket for q's url.
FirstOfBucket(q) ==
  \A p \in Reqs :
    (p < q /\ CStarted(p) /\ creq[p].url = creq[q].url) => Bucket(p) # Bucket(q)
Replayed(r, q) ==
  ~creq[q].invoked /\ creq[q].status = 200 /\ creq[q].body = creq[r].hbody

BucketAdvanced ==
  \E r \in Reqs, q \in Reqs :
    /\ StoredBefore(r, q) /\ CDone(q) /\ creq[r].hbody = "b1"
    /\ Bucket(q) > Bucket(r) /\ FirstOfBucket(q) /\ creq[q].invoked
    /\ creq[q].status = 200 /\ creq[q].body = "b2"

====
